---- MODULE Spec2Model ----
(***************************************************************************)
(* Model of jcal: the dual-calendar Date abstraction (src/src/date.rs) and *)
(* the calendar layout engine (src/cal/src/layout.rs, arg_parser.rs).      *)
(*                                                                         *)
(* A Date is a record [tag, year, month, day].  The concrete calendars     *)
(* (jiff::civil::Date for Gregorian, jelal::Date for Jalali) are external  *)
(* crates; they are modelled by the calendar arithmetic they implement     *)
(* (proleptic Gregorian; Jalali with the 33-year leap cycle) and by the    *)
(* saturating From<IYmd> contract stated in src/src/date.rs:6-11.          *)
(* A builder call that would return Err and be unwrapped sets `panicked`.  *)
(***************************************************************************)
EXTENDS Integers, Sequences, FiniteSets, TLC

VARIABLES
    date,       \* Date spec: the Date value being mutated
    panicked,   \* Date spec: TRUE once an unwrap()/index would have panicked
    steps,      \* Date spec: number of setter calls made so far
    last,       \* Date spec: the last call [op, arg, base, prev]
    grid,       \* Grid spec: the Grid {date, ordinal_mode, base_weekday}
    cells,      \* Grid spec: the matrix returned by new_grid
    oob,        \* Grid spec: TRUE iff new_grid indexed outside the matrix
    gpc,        \* Grid spec: "new" before the call, "done" after
    args,       \* Layout spec: the Args fields read by sync_layout
    layout,     \* Layout spec: the Layout (flattened base_row/column fields)
    lpc,        \* Layout spec: position in sync_layout / print
    run,        \* Layout spec: locals and output of the print pass
    base_row,   \* Row spec: the Row (flattened column, content and grid fields)
    rout,       \* Row spec: what the last call on the Row returned
    rpc,        \* Row spec: "new" before the call, then the call that was made
    scall,      \* String spec: the function called and its arguments
    sret,       \* String spec: what the call returned
    spc         \* String spec: "new" before the call, "done" after

dateVars == <<date, panicked, steps, last>>
gridVars == <<grid, cells, oob, gpc>>
layoutVars == <<args, layout, lpc, run>>
rowVars == <<base_row, rout, rpc>>
stringVars == <<scall, sret, spc>>
vars == <<date, panicked, steps, last, grid, cells, oob, gpc, args, layout, lpc, run, base_row, rout, rpc,
          scall, sret, spc>>

----------------------------------------------------------------------------
(* Bounds of the exploration *)

MaxSteps == 2
MaxMonths == 5

----------------------------------------------------------------------------
(* Program constants *)

JIFF_MIN_YEAR == -9999
JIFF_MAX_YEAR == 9999
WEEK_COUNT == 6
WEEK_DAYS == 7
MIN_DAY == 1
MAX_DAY == 31
UORDINAL_MAX == 65535

Clamp(v, lo, hi) == IF v < lo THEN lo ELSE IF v > hi THEN hi ELSE v
Min(a, b) == IF a < b THEN a ELSE b
Max(a, b) == IF a > b THEN a ELSE b

----------------------------------------------------------------------------
(* Proleptic Gregorian calendar: jiff::civil::Date *)

GIsLeap(y) == (y % 4 = 0) /\ ((y % 100 # 0) \/ (y % 400 = 0))

GMonthLen(y, m) ==
    IF m = 2 THEN (IF GIsLeap(y) THEN 29 ELSE 28)
    ELSE IF m \in {4, 6, 9, 11} THEN 30 ELSE 31

GYearLen(y) == IF GIsLeap(y) THEN 366 ELSE 365

RECURSIVE GDaysBefore(_, _)
GDaysBefore(y, m) == IF m <= 1 THEN 0 ELSE GDaysBefore(y, m - 1) + GMonthLen(y, m - 1)

GOrdinal(y, m, d) == GDaysBefore(y, m) + d

\* month holding day-of-year o (1 <= o <= GYearLen(y))
GMonthOfOrdinal(y, o) == CHOOSE m \in 1..12 : GDaysBefore(y, m) < o /\ o <= GDaysBefore(y, m) + GMonthLen(y, m)

\* days since 0000-12-31 (day 1 is Monday 0001-01-01)
GDayNumber(y, m, d) ==
    365 * (y - 1) + ((y - 1) \div 4) - ((y - 1) \div 100) + ((y - 1) \div 400) + GOrdinal(y, m, d)

----------------------------------------------------------------------------
(* Jalali calendar: jelal::Date (33-year leap cycle) *)

JLeapResidues == {1, 5, 9, 13, 17, 22, 26, 30}

JIsLeap(y) == (y % 33) \in JLeapResidues

JMonthLen(y, m) ==
    IF m <= 6 THEN 31
    ELSE IF m <= 11 THEN 30
    ELSE IF JIsLeap(y) THEN 30 ELSE 29

JYearLen(y) == IF JIsLeap(y) THEN 366 ELSE 365

JDaysBefore(m) == IF m <= 7 THEN 31 * (m - 1) ELSE 186 + 30 * (m - 7)

JOrdinal(m, d) == JDaysBefore(m) + d

JMonthOfOrdinal(o) == IF o <= 186 THEN ((o - 1) \div 31) + 1 ELSE Min(((o - 187) \div 30) + 7, 12)

\* leap years among the years 1 .. y-1 (negative for y < 1)
JLeapsBefore(y) ==
    8 * ((y - 1) \div 33) + Cardinality({r \in JLeapResidues : r <= (y - 1) % 33})

\* days since the day before 0001-01-01 Jalali
JRawDayNumber(y, o) == 365 * (y - 1) + JLeapsBefore(y) + o

\* 1404-01-01 Jalali is 2025-03-21 Gregorian
JEpochShift == GDayNumber(2025, 3, 21) - JRawDayNumber(1404, 1)

JDayNumber(y, m, d) == JRawDayNumber(y, JOrdinal(m, d)) + JEpochShift

----------------------------------------------------------------------------
(* Date values and the read half of CommonDate *)

Greg(y, m, d) == [tag |-> "Gregorian", year |-> y, month |-> m, day |-> d]
Jal(y, m, d) == [tag |-> "Jalali", year |-> y, month |-> m, day |-> d]

\* jelal: the day of From<(year, month, MAX_DAY)>, i.e. MAX_DAY saturated into the month
MonthEndDay(dt) ==
    IF dt.tag = "Gregorian" THEN GMonthLen(dt.year, dt.month)
    ELSE Clamp(MAX_DAY, 1, JMonthLen(dt.year, dt.month))

YearEndOrdinal(dt) ==
    IF dt.tag = "Gregorian" THEN GYearLen(dt.year) ELSE JYearLen(dt.year)

OrdinalOf(dt) ==
    IF dt.tag = "Gregorian" THEN GOrdinal(dt.year, dt.month, dt.day) ELSE JOrdinal(dt.month, dt.day)

DayNumber(dt) ==
    IF dt.tag = "Gregorian" THEN GDayNumber(dt.year, dt.month, dt.day)
    ELSE JDayNumber(dt.year, dt.month, dt.day)

\* Sunday = 0 .. Saturday = 6
WeekdayOf(dt) == DayNumber(dt) % 7

\* Weekday::till_next: steps from `base` forward to `to`
TillNext(base, to) == (to - base) % 7

\* builder result of civil::Date: Err unless the fields name a real day
GValid(y, m, d) ==
    /\ y >= JIFF_MIN_YEAR /\ y <= JIFF_MAX_YEAR
    /\ m >= 1 /\ m <= 12
    /\ d >= 1 /\ d <= GMonthLen(y, m)

ValidDate(dt) ==
    /\ dt.month \in 1..12
    /\ dt.day >= 1 /\ dt.day <= MonthEndDay(dt)
    /\ OrdinalOf(dt) >= 1 /\ OrdinalOf(dt) <= YearEndOrdinal(dt)
    /\ (dt.tag = "Gregorian" => (dt.year >= JIFF_MIN_YEAR /\ dt.year <= JIFF_MAX_YEAR))

----------------------------------------------------------------------------
(* civil::Date setters (src/src/date.rs:151-220).  Each returns            *)
(* [d |-> the new value, p |-> TRUE iff a build().unwrap() panicked].      *)

GBuild(old, y, m, d) ==
    IF GValid(y, m, d) THEN [d |-> Greg(y, m, d), p |-> FALSE] ELSE [d |-> old, p |-> TRUE]

GSetDayUnclamped(dt, day) == GBuild(dt, dt.year, dt.month, day)

GSetDay(dt, day) == GBuild(dt, dt.year, dt.month, Clamp(day, 1, MonthEndDay(dt)))

GSetYear(dt, year) ==
    LET previous_day == dt.day
        b == GBuild(dt, Clamp(year, JIFF_MIN_YEAR, JIFF_MAX_YEAR), dt.month, 1)
        r == GSetDay(b.d, previous_day)
    IN  IF b.p THEN b ELSE r

GSetMonthWrapped(dt, month) ==
    LET previous_day == dt.day
        b == GBuild(dt, dt.year, ((month + 11) % 12) + 1, 1)
        r == GSetDay(b.d, previous_day)
    IN  IF b.p THEN b ELSE r

GSetMonthFirstDay(dt, month) == GBuild(dt, dt.year, Clamp(month, 1, 12), 1)

GSetMonth(dt, month) ==
    LET previous_day == dt.day
        b == GBuild(dt, dt.year, Clamp(month, 1, 12), 1)
        r == GSetDay(b.d, previous_day)
    IN  IF b.p THEN b ELSE r

\* with().day_of_year(o).build(): Err unless 1 <= o <= length of the year
GSetOrdinal(dt, ordinal) ==
    LET o == Clamp(ordinal, 1, YearEndOrdinal(dt))
        m == GMonthOfOrdinal(dt.year, o)
    IN  IF o >= 1 /\ o <= GYearLen(dt.year)
        THEN GBuild(dt, dt.year, m, o - GDaysBefore(dt.year, m))
        ELSE [d |-> dt, p |-> TRUE]

----------------------------------------------------------------------------
(* jelal::Date setters (src/src/date.rs:103-149): every one is a           *)
(* saturating From conversion, which never fails.                          *)

\* From<(year, month, day)>: month and day saturate into their ranges
JFromYmd(y, m, d) ==
    LET mm == Clamp(m, 1, 12)
    IN  Jal(y, mm, Clamp(d, 1, JMonthLen(y, mm)))

\* From<(year, ordinal)>: the ordinal saturates into the year
JFromOrdinal(y, o) ==
    LET oo == Clamp(o, 1, JYearLen(y))
        mm == JMonthOfOrdinal(oo)
    IN  Jal(y, mm, oo - JDaysBefore(mm))

JSetYear(dt, year) == [d |-> JFromOrdinal(year, OrdinalOf(dt)), p |-> FALSE]

JSetMonth(dt, month) == [d |-> JFromYmd(dt.year, month, dt.day), p |-> FALSE]

JSetDay(dt, day) == [d |-> JFromYmd(dt.year, dt.month, day), p |-> FALSE]

JSetOrdinal(dt, ordinal) == [d |-> JFromOrdinal(dt.year, ordinal), p |-> FALSE]

\* jelal::Date::add_months on a (year, month, day) value
JAddMonthsNoCarry(jd, months) ==
    LET total == (jd.month - 1) + months
    IN  JFromYmd(jd.year, (total % 12) + 1, jd.day)

JAddMonths(jd, months) ==
    LET total == jd.year * 12 + (jd.month - 1) + months
    IN  JFromYmd(total \div 12, (total % 12) + 1, jd.day)

----------------------------------------------------------------------------
(* impl CommonDate for Date: dispatch on the tag (src/src/date.rs:256-300) *)
(* and the provided methods of the trait (src/src/date.rs:53-100).         *)

SetYear(dt, year) == IF dt.tag = "Gregorian" THEN GSetYear(dt, year) ELSE JSetYear(dt, year)

SetMonth(dt, month) == IF dt.tag = "Gregorian" THEN GSetMonth(dt, month) ELSE JSetMonth(dt, month)

SetDay(dt, day) == IF dt.tag = "Gregorian" THEN GSetDay(dt, day) ELSE JSetDay(dt, day)

SetOrdinal(dt, ordinal) ==
    IF dt.tag = "Gregorian" THEN GSetOrdinal(dt, ordinal) ELSE JSetOrdinal(dt, ordinal)

SetMonthsOffset(dt, months) ==
    LET new == JAddMonths(JFromYmd(dt.year, dt.month, MIN_DAY), months)
        a == SetYear(dt, new.year)
        b == SetMonth(a.d, new.month)
        c == SetDay(b.d, new.day)
    IN  IF a.p THEN a ELSE IF b.p THEN b ELSE c

SetWeeknum(dt, weeks, base) ==
    LET w == Clamp(weeks, 0, 53)
        offset == TillNext(base, WeekdayOf(dt))
    IN  SetOrdinal(dt, w * 7 + offset)

----------------------------------------------------------------------------
(* impl PartialEq for Date (src/src/date.rs:302-312) *)

\* jelal::Date::from(civil::Date): the Jalali day with the same day number
ToJalali(g) ==
    LET n == GDayNumber(g.year, g.month, g.day)
        y == CHOOSE yy \in (g.year - 623)..(g.year - 620) :
                 JDayNumber(yy, 1, 1) <= n /\ n < JDayNumber(yy + 1, 1, 1)
    IN  JFromOrdinal(y, n - JDayNumber(y, 1, 1) + 1)

DateEqTagBlind(a, b) == <<a.year, a.month, a.day>> = <<b.year, b.month, b.day>>

DateEq(a, b) ==
    IF a.tag = "Jalali" /\ b.tag = "Jalali" THEN a = b
    ELSE IF a.tag = "Gregorian" /\ b.tag = "Gregorian" THEN a = b
    ELSE LET g == IF a.tag = "Gregorian" THEN a ELSE b
             j == IF a.tag = "Gregorian" THEN b ELSE a
         IN  j = ToJalali(g)

----------------------------------------------------------------------------
(* Grid::new_grid (src/cal/src/layout.rs:278-324) *)

EmptyCells == [r \in 0..(WEEK_COUNT - 1) |-> [c \in 0..(WEEK_DAYS - 1) |-> 0]]

\* the `for v in 1..=month_end` loop; writing cells[row] with row = 6 is an
\* index out of bounds
RECURSIVE GridFill(_, _, _, _, _, _)
GridFill(c, row, i, v, month_end, offset) ==
    IF v > month_end THEN [cells |-> c, oob |-> FALSE]
    ELSE IF row >= WEEK_COUNT THEN [cells |-> c, oob |-> TRUE]
    ELSE GridFill([c EXCEPT ![row][i] = v + offset],
                  IF i = 6 THEN row + 1 ELSE row,
                  IF i = 6 THEN 0 ELSE i + 1,
                  v + 1, month_end, offset)

NewGridExclusiveEnd(g) ==
    LET start_month == SetDay(g.date, 1).d
        month_end == MonthEndDay(g.date)
        offset == IF g.ordinal_mode THEN OrdinalOf(start_month) - 1 ELSE 0
        first_i == TillNext(g.base_weekday, WeekdayOf(start_month))
    IN  GridFill(EmptyCells, 0, first_i, 1, month_end - 1, offset)

NewGridFromBase(g) ==
    LET start_month == SetDay(g.date, 1).d
        month_end == MonthEndDay(g.date)
        offset == IF g.ordinal_mode THEN OrdinalOf(start_month) - 1 ELSE 0
        first_i == TillNext(WeekdayOf(start_month), g.base_weekday)
    IN  GridFill(EmptyCells, 0, first_i, 1, month_end, offset)

NewGridNoOffset(g) ==
    LET start_month == SetDay(g.date, 1).d
        month_end == MonthEndDay(g.date)
        first_i == TillNext(g.base_weekday, WeekdayOf(start_month))
    IN  GridFill(EmptyCells, 0, first_i, 1, month_end, 0)

NewGrid(g) ==
    LET start_month == SetDay(g.date, 1).d
        month_end == MonthEndDay(g.date)
        offset == IF g.ordinal_mode THEN OrdinalOf(start_month) - 1 ELSE 0
        first_i == TillNext(g.base_weekday, WeekdayOf(start_month))
    IN  GridFill(EmptyCells, 0, first_i, 1, month_end, offset)

----------------------------------------------------------------------------
(* Widths of ColumnContent, Column, Row and Layout                         *)
(* (src/cal/src/layout.rs:229-231, 373-387, 497-507, 566-583, 641-661,     *)
(* 759-764).  L is the Layout with the fields of its base_row, column,     *)
(* content and grid flattened into one record.                             *)

\* a string is the sequence of its code points; an escape sequence of highlight
\* styling is one element of the sequence
DEFAULT_DELIMITER == <<" ">>
WEEKNUM_EMPTY == <<" ", " ">>
AUTO_COLUMNS_CAP == 2147483647  \* usize::MAX, as the largest representable integer

STYLE_ON == "\\e[7m"
STYLE_OFF == "\\e[0m"

\* U+1F980, two terminal columns wide, and U+200B, which takes no column
WIDE_GLYPH == "U+1F980"
ZERO_WIDTH_GLYPH == "U+200B"

IsVisible(ch) == ch \notin {STYLE_ON, STYLE_OFF, ZERO_WIDTH_GLYPH}

IsWide(ch) == ch = WIDE_GLYPH

\* ansi_width of one code point
CharWidth(ch) == IF IsWide(ch) THEN 2 ELSE IF IsVisible(ch) THEN 1 ELSE 0

\* ansi_width: escape sequences take no column, wide glyphs take two
AnsiWidth(s) == Len(SelectSeq(s, IsVisible)) + Len(SelectSeq(s, IsWide))

DayCellWidth(L) == IF L.ordinal_mode THEN 3 ELSE 2

RowCols(L) ==
    <<WEEK_COUNT + (IF L.weekdays THEN 1 ELSE 0), WEEK_DAYS + (IF L.weeknums # "none" THEN 1 ELSE 0)>>

RowStrWidth(L) ==
    WEEK_DAYS * DayCellWidth(L) + (IF L.weeknums # "none" THEN AnsiWidth(WEEKNUM_EMPTY) ELSE 0)

ColumnWidth(L) ==
    LET dw == AnsiWidth(L.delimiter)
    IN  IF L.vertical
        THEN LET c == RowCols(L)[1] IN c * DayCellWidth(L) + (c - 1) * dw
        ELSE LET c == RowCols(L)[2] IN RowStrWidth(L) + (c - 1) * dw

RowWidth(L) ==
    ColumnWidth(L) * (L.more_columns + 1) + AnsiWidth(L.row_delimiter) * L.more_columns

\* the divisor of columns_in_width; the division panics when it is 0
RowColumnStride(L) == ColumnWidth(L) + AnsiWidth(L.row_delimiter)

RowColumnsInWidthNoFirst(L, maximum_width) ==
    LET column_width == ColumnWidth(L)
    IN  IF maximum_width < column_width THEN 0
        ELSE 1 + (maximum_width \div RowColumnStride(L))

RowColumnsInWidth(L, maximum_width) ==
    LET column_width == ColumnWidth(L)
    IN  IF maximum_width < column_width THEN 0
        ELSE 1 + ((maximum_width - column_width) \div RowColumnStride(L))

CommonWeekdaysIsEnabled(L) ==
    IF L.common_weekday = "none" THEN L.vertical ELSE L.common_weekday = "true"

RowsLeftOffset(L) ==
    IF L.vertical /\ CommonWeekdaysIsEnabled(L)
    THEN DayCellWidth(L) + AnsiWidth(L.delimiter)
    ELSE 0

LayoutColumnsInWidth(L, width) ==
    IF width < RowsLeftOffset(L) THEN 0
    ELSE RowColumnsInWidth(L, width - RowsLeftOffset(L))

\* width of every body line Column::format joins (layout.rs:513-531): in
\* vertical mode row_cols().0 cells re-padded to the day cell, otherwise the 7
\* day cells and the week-number cell
ColumnLineWidth(L) ==
    IF L.vertical
    THEN RowCols(L)[1] * DayCellWidth(L) + (RowCols(L)[1] - 1) * AnsiWidth(L.delimiter)
    ELSE WEEK_DAYS * DayCellWidth(L)
             + (IF L.weeknums # "none" THEN AnsiWidth(WEEKNUM_EMPTY) ELSE 0)
             + (RowCols(L)[2] - 1) * AnsiWidth(L.delimiter)

\* width of a line Layout::print writes for a row of n columns
\* (layout.rs:586-611 and 719-726), prefix cell included
PrintedLineWidth(L, n, prefixed) ==
    (IF prefixed THEN DayCellWidth(L) + AnsiWidth(L.delimiter) ELSE 0)
        + n * ColumnLineWidth(L) + (n - 1) * AnsiWidth(L.row_delimiter)

----------------------------------------------------------------------------
(* Terminal strings (src/cal/src/string.rs) and the name tables            *)
(* (src/src/lib.rs).  A string is the sequence of its characters; the      *)
(* escape sequences that switch highlight styling on and off are one       *)
(* zero-width element each.                                                *)

WEEKDAYS ==
    << <<"S", "u", "n", "d", "a", "y">>,
       <<"M", "o", "n", "d", "a", "y">>,
       <<"T", "u", "e", "s", "d", "a", "y">>,
       <<"W", "e", "d", "n", "e", "s", "d", "a", "y">>,
       <<"T", "h", "u", "r", "s", "d", "a", "y">>,
       <<"F", "r", "i", "d", "a", "y">>,
       <<"S", "a", "t", "u", "r", "d", "a", "y">> >>

GREGORIAN_MONTHS ==
    << <<"J", "a", "n", "u", "a", "r", "y">>,
       <<"F", "e", "b", "r", "u", "a", "r", "y">>,
       <<"M", "a", "r", "c", "h">>,
       <<"A", "p", "r", "i", "l">>,
       <<"M", "a", "y">>,
       <<"J", "u", "n", "e">>,
       <<"J", "u", "l", "y">>,
       <<"A", "u", "g", "u", "s", "t">>,
       <<"S", "e", "p", "t", "e", "m", "b", "e", "r">>,
       <<"O", "c", "t", "o", "b", "e", "r">>,
       <<"N", "o", "v", "e", "m", "b", "e", "r">>,
       <<"D", "e", "c", "e", "m", "b", "e", "r">> >>

JALALI_MONTHS ==
    << <<"F", "a", "r", "v", "a", "r", "d", "i", "n">>,
       <<"O", "r", "d", "i", "b", "e", "h", "e", "s", "h", "t">>,
       <<"K", "h", "o", "r", "d", "a", "d">>,
       <<"T", "i", "r">>,
       <<"M", "o", "r", "d", "a", "d">>,
       <<"S", "h", "a", "h", "r", "i", "v", "a", "r">>,
       <<"M", "e", "h", "r">>,
       <<"A", "b", "a", "n">>,
       <<"A", "z", "a", "r">>,
       <<"D", "e", "y">>,
       <<"B", "a", "h", "m", "a", "n">>,
       <<"E", "s", "f", "a", "n", "d">> >>

DigitChars == <<"0", "1", "2", "3", "4", "5", "6", "7", "8", "9">>

\* usize::to_string
RECURSIVE ToStr(_)
ToStr(n) == IF n < 10 THEN <<DigitChars[n + 1]>> ELSE Append(ToStr(n \div 10), DigitChars[(n % 10) + 1])

\* IYear::to_string
IntToStr(n) == IF n < 0 THEN <<"-">> \o ToStr(-n) ELSE ToStr(n)

\* highlight: s.reversed()
Highlight(t) == <<STYLE_ON>> \o t \o <<STYLE_OFF>>

IsHighlighted(t) == \E i \in 1..Len(t) : t[i] = STYLE_ON

\* the string without its escape sequences
Visible(t) == SelectSeq(t, IsVisible)

\* cut_end: the code points taken while the width fits
RECURSIVE CutEndFrom(_, _, _, _)
CutEndFrom(t, i, width_this_far, maximum_width) ==
    IF i > Len(t) THEN t
    ELSE IF width_this_far + CharWidth(t[i]) > maximum_width THEN SubSeq(t, 1, i - 1)
    ELSE CutEndFrom(t, i + 1, width_this_far + CharWidth(t[i]), maximum_width)

CutEndByCount(t, maximum_width) == SubSeq(t, 1, Min(Len(t), maximum_width))

CutEnd(t, maximum_width) == CutEndFrom(t, 1, 0, maximum_width)

\* repeat_for_ansi_width pushes the cycled code points of s until the next one
\* would exceed maximum_width: as many whole cycles as fit, then the code
\* points of one more cycle that fit in what is left
RepeatTail(s, left_width) ==
    CHOOSE r \in 0..(Len(s) - 1) :
        /\ AnsiWidth(SubSeq(s, 1, r)) <= left_width
        /\ AnsiWidth(SubSeq(s, 1, r + 1)) > left_width

RepeatForAnsiWidth(s, maximum_width) ==
    IF AnsiWidth(s) = 0 THEN <<>>
    ELSE [i \in 1..((maximum_width \div AnsiWidth(s)) * Len(s)
                    + RepeatTail(s, maximum_width % AnsiWidth(s))) |->
             s[((i - 1) % Len(s)) + 1]]

\* Aligner::SPACE, Aligner::ZERO and Aligner::CENTER_DOT
SPACE == [filler |-> <<" ">>, filler_adjust |-> " "]
ZERO == [filler |-> <<"0">>, filler_adjust |-> "0"]
CENTER_DOT == [filler |-> <<".">>, filler_adjust |-> "."]

\* Aligner::filler: the repeated filler, completed with filler_adjust
FillerAdjusted(A, filler, needed_width) ==
    filler \o [i \in 1..Max(needed_width - AnsiWidth(filler), 0) |-> A.filler_adjust]

Filler(A, needed_width) ==
    FillerAdjusted(A, RepeatForAnsiWidth(A.filler, needed_width), needed_width)

AlignRight(A, t, width) ==
    IF AnsiWidth(t) < width THEN Filler(A, width - AnsiWidth(t)) \o t
    ELSE IF AnsiWidth(t) = width THEN t
    ELSE CutEnd(t, width)

AlignLeft(A, t, width) ==
    IF AnsiWidth(t) < width THEN t \o Filler(A, Max(width - AnsiWidth(t), 0))
    ELSE IF AnsiWidth(t) = width THEN t
    ELSE CutEnd(t, width)

\* left and right halves of the padding of Aligner::center
CenterPaddedCeilFirst(A, t, left, right) == Filler(A, right) \o t \o Filler(A, left)

CenterPadded(A, t, left, right) == Filler(A, left) \o t \o Filler(A, right)

AlignCenter(A, t, width) ==
    IF AnsiWidth(t) < width
    THEN CenterPadded(A, t, (width - AnsiWidth(t)) \div 2,
                      ((width - AnsiWidth(t)) \div 2) + ((width - AnsiWidth(t)) % 2))
    ELSE IF AnsiWidth(t) = width THEN t
    ELSE CutEnd(t, width)

\* join(v, delimiter) on a sequence of rendered strings
RECURSIVE Join(_, _)
Join(v, delimiter) ==
    IF Len(v) = 0 THEN <<>>
    ELSE IF Len(v) = 1 THEN v[1]
    ELSE Join(SubSeq(v, 1, Len(v) - 1), delimiter) \o delimiter \o v[Len(v)]

\* trim_start().is_empty(): escape sequences are not white space
IsBlank(t) == \A i \in 1..Len(t) : t[i] = " "

----------------------------------------------------------------------------
(* Week numbers (src/src/date.rs:53-62, 93-100; src/cal/src/layout.rs:     *)
(* 131-172).  Weekday::count_weeks and count_iso_weeks belong to the jelal *)
(* crate; they are modelled by the counts their callers document: weeks    *)
(* start on `base`, the days before the first `base` day of the year are   *)
(* week 0 (layout.rs:141, 1078-1083), and the ISO count puts week 1 on the *)
(* year's first Thursday with 0 for the days before it.                    *)

\* Weekday::count_weeks, on the weekday of ordinal 1
CountWeeks(new_year_weekday, ordinal, base) ==
    LET in_week == (new_year_weekday + ordinal - 1 - base) % 7
    IN  (ordinal - 1 + 7 - in_week) \div 7

\* Weekday::count_iso_weeks, on the weekday of ordinal 1
CountIsoWeeks(new_year_weekday, ordinal) ==
    LET wd == (new_year_weekday + ordinal - 1) % 7
        iso_wd == IF wd = 0 THEN 7 ELSE wd
    IN  (ordinal - iso_wd + 10) \div 7

Weeknum(dt, base) ==
    LET new_year == SetOrdinal(dt, 1).d
    IN  CountWeeks(WeekdayOf(new_year), OrdinalOf(dt), base)

IsoWeeknum(dt) ==
    LET v == SetOrdinal(dt, 1).d
    IN  CountIsoWeeks(WeekdayOf(v), OrdinalOf(dt))

\* weeknums: config is "iso" or "based"
Weeknums(config, dt, base_weekday) ==
    LET first == SetDay(dt, 1).d
    IN  [i \in 0..(WEEK_COUNT - 1) |->
            (IF config = "iso" THEN IsoWeeknum(first) ELSE Weeknum(first, base_weekday)) + i]

\* the date format_weeknums rebuilds for a computed 0
LastDayOfPreviousYear(dt) == SetOrdinal(SetYear(dt, dt.year - 1).d, UORDINAL_MAX).d

FormatWeeknumsKeepZero(dt, base_weekday, config, highlight_week) ==
    LET raw == Weeknums(config, dt, base_weekday)
    IN  [i \in 0..(WEEK_COUNT - 1) |->
            LET weeknum == raw[i]
                v == AlignRight(SPACE, ToStr(weeknum), 2)
            IN  IF highlight_week.some /\ highlight_week.v = weeknum THEN Highlight(v) ELSE v]

\* highlight_week is [some, v] for Option<usize>
FormatWeeknums(dt, base_weekday, config, highlight_week) ==
    LET raw == Weeknums(config, dt, base_weekday)
    IN  [i \in 0..(WEEK_COUNT - 1) |->
            LET weeknum == IF raw[i] = 0
                           THEN Weeknum(LastDayOfPreviousYear(dt), base_weekday)
                           ELSE raw[i]
                v == AlignRight(SPACE, ToStr(weeknum), 2)
            IN  IF highlight_week.some /\ highlight_week.v = weeknum THEN Highlight(v) ELSE v]

----------------------------------------------------------------------------
(* Grid::format, ColumnContent::format, Column::format, Row::format_mut    *)
(* (src/cal/src/layout.rs:225-268, 357-435, 465-534, 586-611).  A          *)
(* Highlight is [kind, date, week] with kind "none", "day" or "week".      *)

NoHighlight == [kind |-> "none", date |-> Greg(1, 1, 1), week |-> 0]

\* Highlight::day and Highlight::week under Option::and_then
HighlightDay(h) == [some |-> h.kind = "day", date |-> h.date]

HighlightWeek(h) == [some |-> h.kind = "week", v |-> h.week]

FormatInDayCell(L, t) == AlignRight(SPACE, t, DayCellWidth(L))

IsHighlightByDay(L, hday, value) ==
    /\ hday.some
    /\ DateEq(hday.date, SetDay(L.date, value % 256).d)

\* the is_highlight closure of Grid::format; `day as u8` wraps
IsHighlight(L, hday, value) ==
    /\ hday.some
    /\ LET d == IF L.ordinal_mode THEN SetOrdinal(L.date, value).d
                ELSE SetDay(L.date, value % 256).d
       IN  DateEq(hday.date, d)

GridFormat(L, hday) ==
    LET raw == NewGrid(L).cells
    IN  [i \in 0..(WEEK_COUNT - 1) |-> [j \in 0..(WEEK_DAYS - 1) |->
            LET value == raw[i][j]
                s == FormatInDayCell(L, ToStr(value))
            IN  IF value = 0 THEN FormatInDayCell(L, <<>>)
                ELSE IF IsHighlight(L, hday, value) THEN Highlight(s) ELSE s]]

\* weekdays(base_weekday)
WeekdayNames(base_weekday) == [offset \in 1..WEEK_DAYS |-> WEEKDAYS[((base_weekday + offset - 1) % 7) + 1]]

FormatWeekdaysForceNoShift(L) ==
    [k \in 1..WEEK_DAYS |-> FormatInDayCell(L, WeekdayNames(L.base_weekday)[k])]

FormatWeekdaysForce(L) ==
    LET v == [k \in 1..WEEK_DAYS |-> FormatInDayCell(L, WeekdayNames(L.base_weekday)[k])]
    IN  IF L.weeknums # "none"
        THEN (IF L.weeknums_before_grid THEN <<WEEKNUM_EMPTY>> \o v
              ELSE Append(v, WEEKNUM_EMPTY))
        ELSE v

\* the week-number cell ColumnContent::format puts on grid row `cellrow`
WeeknumCellAlways(cellrow, v) == v

WeeknumCell(cellrow, v) ==
    IF \A c \in 1..Len(cellrow) : IsBlank(cellrow[c]) THEN WEEKNUM_EMPTY ELSE v

\* the grid as the Vec of Vecs ColumnContent::format starts from
ContentRows(g) == [i \in 1..WEEK_COUNT |-> [j \in 1..WEEK_DAYS |-> g[i - 1][j - 1]]]

\* the week-number lane: one cell inserted before, or pushed after, every row
ContentWithNumbers(L, plain_rows, numbers) ==
    IF L.weeknums = "none" THEN plain_rows
    ELSE [i \in 1..WEEK_COUNT |->
             IF L.weeknums_before_grid
             THEN <<WeeknumCell(plain_rows[i], numbers[i - 1])>> \o plain_rows[i]
             ELSE Append(plain_rows[i], WeeknumCell(plain_rows[i], numbers[i - 1]))]

\* the weekday lane: one row inserted before, or pushed after, the rows
ContentWithNames(L, with_numbers, names) ==
    IF L.weekdays
    THEN (IF L.weekdays_before_grid THEN <<names>> \o with_numbers
          ELSE Append(with_numbers, names))
    ELSE with_numbers

ContentFormat(L, h) ==
    ContentWithNames(L,
        ContentWithNumbers(L,
            ContentRows(GridFormat(L, HighlightDay(h))),
            IF L.weeknums = "none" THEN <<>>
            ELSE FormatWeeknums(L.date, L.base_weekday, L.weeknums, HighlightWeek(h))),
        FormatWeekdaysForce(L))

\* Column::year_format
YearFormat(year) ==
    LET s == IntToStr(year)
    IN  IF AnsiWidth(s) < 4 THEN AlignRight(ZERO, s, 4) ELSE s

MonthName(dt) ==
    IF dt.tag = "Jalali" THEN JALALI_MONTHS[dt.month] ELSE GREGORIAN_MONTHS[dt.month]

FormatHeaderContentWidth(L) ==
    LET month_name == MonthName(L.date)
        width == RowStrWidth(L)
    IN  IF L.year_in_header
        THEN AlignCenter(SPACE, month_name \o <<" ">> \o YearFormat(L.date.year), width)
        ELSE AlignCenter(SPACE, month_name, width)

FormatHeader(L) ==
    LET month_name == MonthName(L.date)
        width == ColumnWidth(L)
    IN  IF L.year_in_header
        THEN AlignCenter(SPACE, month_name \o <<" ">> \o YearFormat(L.date.year), width)
        ELSE AlignCenter(SPACE, month_name, width)

\* Column::format on the matrix ColumnContent::format returned
ColumnLinesNoRepad(L, content) ==
    LET rc == RowCols(L)
        rows == IF L.vertical THEN rc[2] ELSE rc[1]
        cols == IF L.vertical THEN rc[1] ELSE rc[2]
    IN  <<FormatHeader(L)>> \o
        [i \in 1..rows |->
            Join([j \in 1..cols |-> IF L.vertical THEN content[j][i] ELSE content[i][j]],
                 L.delimiter)]

ColumnLines(L, content) ==
    LET rc == RowCols(L)
        rows == IF L.vertical THEN rc[2] ELSE rc[1]
        cols == IF L.vertical THEN rc[1] ELSE rc[2]
    IN  <<FormatHeader(L)>> \o
        [i \in 1..rows |->
            Join([j \in 1..cols |->
                     IF L.vertical THEN FormatInDayCell(L, content[j][i]) ELSE content[i][j]],
                 L.delimiter)]

ColumnFormat(L, h) == ColumnLines(L, ContentFormat(L, h))

\* what one rendered column of a Row was made of
RenderedColumn(L, h) == [date |-> L.date, raw |-> NewGrid(L).cells]

\* set_saturating_months_offset(1) on the Row's date
RowAdvanceStay(L) == L

RowAdvance(L) == [L EXCEPT !.date = SetMonthsOffset(L.date, 1).d]

\* the while loop of Row::format_mut: the Row as it stands at each further
\* column.format call, and the Row the loop leaves
RECURSIVE RowFormatLoop(_, _)
RowFormatLoop(L, formatted) ==
    IF L.more_columns = 0 THEN [row |-> L, formatted |-> formatted]
    ELSE LET l1 == [L EXCEPT !.more_columns = L.more_columns - 1]
         IN  RowFormatLoop(RowAdvance(l1), Append(formatted, l1))

\* every running line gets the delimiter and the next line of each new column
JoinColumns(columns, delimiter) ==
    [k \in 1..Len(columns[1]) |->
        Join([j \in 1..Len(columns) |-> columns[j][k]], delimiter)]

RowLines(formatted, h) ==
    CHOOSE lines \in { JoinColumns(columns, formatted[1].row_delimiter) :
                         columns \in {[j \in 1..Len(formatted) |->
                                          ColumnFormat(formatted[j], h)]} } : TRUE

RowFormatMut(L, h) ==
    CHOOSE r \in { [row |-> loop.row,
                    lines |-> RowLines(loop.formatted, h),
                    rendered |-> [j \in 1..Len(loop.formatted) |->
                                     RenderedColumn(loop.formatted[j], h)]] :
                   loop \in {RowFormatLoop(RowAdvance(L), <<L>>)} } : TRUE

----------------------------------------------------------------------------
(* Args::start_month, Args::suggested_columns, Args::sync_layout           *)
(* (src/cal/src/arg_parser.rs:76-139)                                      *)

StartMonthFloor(A) ==
    IF A.full_year_mode THEN SetMonth(A.now, 1).d
    ELSE LET now == SetDay(A.now, 1).d
             months_before == (A.months - 1) \div 2
         IN  IF ~A.span \/ A.months = 1 THEN now
             ELSE SetMonthsOffset(now, -months_before).d

StartMonth(A) ==
    IF A.full_year_mode THEN SetMonth(A.now, 1).d
    ELSE LET now == SetDay(A.now, 1).d
             months_before == ((A.months - 1) \div 2) + ((A.months - 1) % 2)
         IN  IF ~A.span \/ A.months = 1 THEN now
             ELSE SetMonthsOffset(now, -months_before).d

SuggestedColumnsRequested(A, L) == A.columns

SuggestedColumns(A, L) ==
    IF A.auto_columns
    THEN Max(Min(LayoutColumnsInWidth(L, A.width_chars), A.columns), 1)
    ELSE A.columns

SyncLayout(A, L) ==
    LET l1 == [L EXCEPT !.date = StartMonth(A)]
        l2 == [l1 EXCEPT !.more_columns = IF A.months >= 1 THEN A.months - 1 ELSE 0]
        l3 == [l2 EXCEPT !.next_row_after_column = SuggestedColumns(A, l2)]
    IN  IF l3.vertical
        THEN [l3 EXCEPT !.weeknums_before_grid = FALSE, !.common_weekday = "true"]
        ELSE l3

----------------------------------------------------------------------------
(* Row::format_mut and Layout::print (src/cal/src/layout.rs:586-611,       *)
(* 673-729)                                                                *)

MonthOf(dt) == [tag |-> dt.tag, year |-> dt.year, month |-> dt.month]

\* renders the column at dt and `more` further columns, one month apart;
\* yields the months rendered and the date the Row is left on
RECURSIVE FormatMut(_, _, _)
FormatMut(dt, more, acc) ==
    LET rendered == Append(acc, MonthOf(dt))
        next == SetMonthsOffset(dt, 1).d
    IN  IF more = 0 THEN [date |-> next, months |-> rendered]
        ELSE FormatMut(next, more - 1, rendered)

MoreColumnsNoSub(months_requested, printed, next_row_after_column) ==
    Min(months_requested - printed, next_row_after_column)

MoreColumnsFullRow(months_requested, printed, next_row_after_column) ==
    Max(next_row_after_column - 1, 0)

MoreColumnsNewValue(months_requested, printed, next_row_after_column) ==
    Max(Min(months_requested - printed, next_row_after_column) - 1, 0)

\* print, lines 698-708: the year of the date months_requested months ahead
CrossesYear(L, months_requested) ==
    SetMonthsOffset(L.date, months_requested).d.year # L.date.year

----------------------------------------------------------------------------
(* Date specification: setter calls on one Date value *)

NoDate == Greg(1, 1, 1)  \* Date::default()

IdleCall == [op |-> "none", arg |-> 0, base |-> 0, prev |-> NoDate, other |-> NoDate,
             res |-> FALSE, rev |-> FALSE]

StartDates ==
    { Greg(1, 1, 1), Greg(2024, 2, 29), Greg(2025, 1, 31), Greg(2025, 11, 1),
      Greg(2025, 12, 15), Greg(9999, 12, 31), Greg(-9999, 1, 1),
      Jal(1403, 12, 30), Jal(1404, 1, 1), Jal(1404, 6, 31), Jal(1404, 9, 10) }

YearArgs == {-10000, -9999, 0, 2023, 2024, 9999, 10000}
MonthArgs == {0, 1, 2, 7, 12, 13, 255}
DayArgs == {0, 1, 29, 30, 31, 35, 255}
OrdinalArgs == {0, 1, 60, 365, 366, 367, UORDINAL_MAX}
OffsetArgs == {-13, -12, -1, 0, 1, 11, 12, 13}
WeekArgs == {0, 1, 52, 53, 54}
Weekdays == 0..6
OtherDates ==
    { Greg(2025, 3, 21), Jal(1404, 1, 1), Greg(2025, 11, 1), Jal(1404, 8, 10),
      Greg(2024, 2, 29), Jal(1402, 12, 10), Jal(2025, 11, 1), Greg(1404, 1, 1) }

GridIdle ==
    /\ grid = [date |-> NoDate, ordinal_mode |-> FALSE, base_weekday |-> 0]
    /\ cells = EmptyCells
    /\ oob = FALSE
    /\ gpc = "idle"

DefaultLayout ==
    [date |-> NoDate, more_columns |-> 0, next_row_after_column |-> 1,
     common_weekday |-> "none", year_in_header |-> FALSE, vertical |-> FALSE,
     weekdays |-> TRUE, weekdays_before_grid |-> TRUE, weeknums |-> "none",
     weeknums_before_grid |-> TRUE, ordinal_mode |-> FALSE, base_weekday |-> 0,
     delimiter |-> DEFAULT_DELIMITER, row_delimiter |-> DEFAULT_DELIMITER \o DEFAULT_DELIMITER \o DEFAULT_DELIMITER]

DefaultArgs ==
    [used |-> FALSE, months |-> 1, span |-> FALSE, columns |-> 3, auto_columns |-> TRUE,
     width_chars |-> 80, now |-> NoDate, full_year_mode |-> FALSE]

NoRun ==
    [months_requested |-> 0, printed_months |-> 0, rendered |-> <<>>, rows |-> <<>>,
     widths |-> <<>>, prefixed |-> FALSE, start |-> NoDate, configured_year_in_header |-> FALSE]

LayoutIdle ==
    /\ args = DefaultArgs
    /\ layout = DefaultLayout
    /\ lpc = "idle"
    /\ run = NoRun

\* Row::default() with Column::default() and ColumnContent::default()
DefaultRow ==
    [date |-> NoDate, more_columns |-> 0, year_in_header |-> FALSE, vertical |-> FALSE,
     weekdays |-> TRUE, weekdays_before_grid |-> TRUE, weeknums |-> "none",
     weeknums_before_grid |-> TRUE, ordinal_mode |-> FALSE, base_weekday |-> 0,
     delimiter |-> DEFAULT_DELIMITER, row_delimiter |-> DEFAULT_DELIMITER \o DEFAULT_DELIMITER \o DEFAULT_DELIMITER]

NoOut == [h |-> NoHighlight, before |-> DefaultRow, raw |-> <<>>, grid |-> <<>>,
          weeknums |-> <<>>, content |-> <<>>,
          lines |-> <<>>, rendered |-> <<>>, maximum_width |-> 0, n |-> 0, div_by_zero |-> FALSE,
          layout |-> DefaultLayout, top |-> <<>>, printed |-> <<>>]

RowIdle ==
    /\ base_row = DefaultRow
    /\ rout = NoOut
    /\ rpc = "idle"

NoCall == [op |-> "none", aligner |-> SPACE, s |-> <<>>, width |-> 0, tag |-> "Gregorian"]

StringIdle ==
    /\ scall = NoCall
    /\ sret = <<>>
    /\ spc = "idle"

DateInit ==
    /\ date \in StartDates
    /\ panicked = FALSE
    /\ steps = 0
    /\ last = IdleCall

DateIdle ==
    /\ date = NoDate
    /\ panicked = FALSE
    /\ steps = 0
    /\ last = IdleCall

\* apply the result r of a setter and record the call
Called(r, op, a, b) ==
    /\ date' = r.d
    /\ panicked' = r.p
    /\ steps' = steps + 1
    /\ last' = [IdleCall EXCEPT !.op = op, !.arg = a, !.base = b, !.prev = date]
    /\ UNCHANGED <<gridVars, layoutVars, rowVars, stringVars>>

CanCall == ~panicked /\ steps < MaxSteps

CallSetYear == CanCall /\ \E y \in YearArgs : Called(SetYear(date, y), "year", y, 0)

CallSetMonth == CanCall /\ \E m \in MonthArgs : Called(SetMonth(date, m), "month", m, 0)

CallSetDay == CanCall /\ \E d \in DayArgs : Called(SetDay(date, d), "day", d, 0)

CallSetOrdinal == CanCall /\ \E o \in OrdinalArgs : Called(SetOrdinal(date, o), "ordinal", o, 0)

CallSetMonthsOffset ==
    CanCall /\ \E n \in OffsetArgs : Called(SetMonthsOffset(date, n), "months_offset", n, 0)

CallSetWeeknum ==
    CanCall /\ \E w \in WeekArgs, b \in Weekdays : Called(SetWeeknum(date, w, b), "weeknum", w, b)

\* a == b and b == a for another Date b
CallEq ==
    /\ CanCall
    /\ \E b \in OtherDates \cup StartDates :
        /\ last' = [IdleCall EXCEPT !.op = "eq", !.prev = date, !.other = b,
                                    !.res = DateEq(date, b), !.rev = DateEq(b, date)]
        /\ steps' = steps + 1
        /\ UNCHANGED <<date, panicked, gridVars, layoutVars, rowVars, stringVars>>

DateNext ==
    \/ CallSetYear
    \/ CallSetMonth
    \/ CallSetDay
    \/ CallSetOrdinal
    \/ CallSetMonthsOffset
    \/ CallSetWeeknum
    \/ CallEq

DateSpecInit == DateInit /\ GridIdle /\ LayoutIdle /\ RowIdle /\ StringIdle

DateSpec == DateSpecInit /\ [][DateNext]_vars

----------------------------------------------------------------------------
(* Properties of the Date abstraction *)

\* months since year 0, month 1
MonthIndex(dt) == dt.year * 12 + dt.month - 1

\* the month `n` months from dt lies inside the supported years of dt's calendar
TargetInRange(dt, n) ==
    dt.tag = "Gregorian" =>
        /\ (MonthIndex(dt) + n) \div 12 >= JIFF_MIN_YEAR
        /\ (MonthIndex(dt) + n) \div 12 <= JIFF_MAX_YEAR

\* C6: set_saturating_months_offset(delta) with its target month inside the
\* supported range leaves the date on day 1 of the month exactly delta months
\* from the original month, whatever the original day.
C6_MonthsOffsetExact ==
    (last.op = "months_offset" /\ TargetInRange(last.prev, last.arg)) =>
        /\ ~panicked
        /\ date.tag = last.prev.tag
        /\ date.day = 1
        /\ MonthIndex(date) = MonthIndex(last.prev) + last.arg

C6_Witness ==
    /\ last.op = "months_offset"
    /\ last.arg = -13
    /\ last.prev.day > 1
    /\ date.year = last.prev.year - 2
    /\ date.day = 1

\* C7: set_saturating_months_offset clamps at the calendar extremes: it never
\* panics, a non-negative delta never yields an earlier month than before the
\* call and a non-positive delta never a later one.
C7_MonthsOffsetClamps ==
    last.op = "months_offset" =>
        /\ ~panicked
        /\ (last.arg >= 0 => MonthIndex(date) >= MonthIndex(last.prev))
        /\ (last.arg <= 0 => MonthIndex(date) <= MonthIndex(last.prev))

\* C8: after any sequence of saturating setter calls no call has panicked and
\* the Date is a valid day of its calendar.
C8_AlwaysValid == ~panicked /\ ValidDate(date)

C8_Witness ==
    /\ steps >= 2
    /\ last.op = "ordinal"
    /\ last.arg > 366
    /\ last.prev.tag = "Gregorian"
    /\ last.prev.year = JIFF_MIN_YEAR

\* C9: each saturating setter stores its argument clamped into the valid range
\* of the field: day into 1..month_end_day, month into 1..12, Gregorian year into
\* -9999..9999, ordinal into 1..year_end_ordinal.
C9_SettersClamp ==
    /\ last.op = "day" => date.day = Clamp(last.arg, 1, MonthEndDay(last.prev))
    /\ last.op = "month" => date.month = Clamp(last.arg, 1, 12)
    /\ (last.op = "year" /\ date.tag = "Gregorian") =>
           date.year = Clamp(last.arg, JIFF_MIN_YEAR, JIFF_MAX_YEAR)
    /\ (last.op = "year" /\ date.tag = "Jalali") => date.year = last.arg
    /\ last.op = "ordinal" => OrdinalOf(date) = Clamp(last.arg, 1, YearEndOrdinal(last.prev))

C9_Witness ==
    /\ last.op = "month"
    /\ last.arg = 13
    /\ date.month = 12
    /\ last.prev.day = 31
    /\ last.prev.month = 1

\* C10: Date equality is calendar-agnostic and symmetric: same-tag Dates are
\* equal iff their values are equal, a Gregorian and a Jalali Date are equal iff
\* they denote the same absolute day, and a == b iff b == a.
C10_EqCalendarAgnostic ==
    last.op = "eq" =>
        /\ last.res = last.rev
        /\ (last.prev.tag = last.other.tag => (last.res <=> (last.prev = last.other)))
        /\ (last.prev.tag # last.other.tag =>
               (last.res <=> (DayNumber(last.prev) = DayNumber(last.other))))

C10_Witness ==
    /\ last.op = "eq"
    /\ last.prev.tag = "Gregorian"
    /\ last.other.tag = "Jalali"
    /\ last.res

----------------------------------------------------------------------------
(* Grid specification: one new_grid call on a Grid of any month *)

GridYears == {2015, 2024, 2025}
JalaliGridYears == {1403, 1404}
GridDays == {1, 17}

GridDates ==
    {Greg(y, m, d) : y \in GridYears, m \in 1..12, d \in GridDays}
        \cup {Jal(y, m, d) : y \in JalaliGridYears, m \in 1..12, d \in GridDays}

GridInit ==
    /\ grid \in [date : GridDates, ordinal_mode : BOOLEAN, base_weekday : Weekdays]
    /\ cells = EmptyCells
    /\ oob = FALSE
    /\ gpc = "new"

CallNewGrid ==
    /\ gpc = "new"
    /\ LET r == NewGrid(grid)
       IN  cells' = r.cells /\ oob' = r.oob
    /\ gpc' = "done"
    /\ UNCHANGED <<grid, dateVars, layoutVars, rowVars, stringVars>>

GridNext == CallNewGrid

GridSpecInit == GridInit /\ DateIdle /\ LayoutIdle /\ RowIdle /\ StringIdle

GridSpec == GridSpecInit /\ [][GridNext]_vars

\* the cell at row-major position k
Flat(k) == cells[k \div WEEK_DAYS][k % WEEK_DAYS]

CellCount == WEEK_COUNT * WEEK_DAYS

FirstOfMonth(dt) == [dt EXCEPT !.day = 1]

GridOffset == IF grid.ordinal_mode THEN OrdinalOf(FirstOfMonth(grid.date)) - 1 ELSE 0

\* number of zero cells before the first non-zero cell
LeadingBlanks ==
    IF \A k \in 0..(CellCount - 1) : Flat(k) = 0 THEN CellCount
    ELSE CHOOSE k \in 0..(CellCount - 1) : Flat(k) # 0 /\ \A j \in 0..(k - 1) : Flat(j) = 0

\* C1: new_grid returns a 6x7 matrix whose non-zero cells, row-major, are the
\* consecutive numbers offset+1 .. offset+month_end_day after one run of at most
\* 6 zero cells and before only zero cells; no cell outside the matrix is written.
C1_GridShape ==
    gpc = "done" =>
        /\ ~oob
        /\ DOMAIN cells = 0..(WEEK_COUNT - 1)
        /\ \A r \in DOMAIN cells : DOMAIN cells[r] = 0..(WEEK_DAYS - 1)
        /\ \E lead \in 0..6 :
              \A k \in 0..(CellCount - 1) :
                  Flat(k) = IF k >= lead /\ k < lead + MonthEndDay(grid.date)
                            THEN GridOffset + (k - lead) + 1
                            ELSE 0

C1_Witness ==
    /\ gpc = "done"
    /\ grid.ordinal_mode
    /\ MonthEndDay(grid.date) = 31
    /\ LeadingBlanks = 6
    /\ cells[5][1] = GridOffset + 31
    /\ GridOffset > 0

\* C2: the number of leading blank cells is the number of weekday steps from
\* base_weekday forward to the weekday of day 1, so every day d of the month sits
\* in column (weekday(d) - base_weekday) mod 7.
C2_GridColumns ==
    gpc = "done" =>
        /\ LeadingBlanks = (WeekdayOf(FirstOfMonth(grid.date)) - grid.base_weekday) % 7
        /\ \A d \in 1..MonthEndDay(grid.date) :
              \E r \in 0..(WEEK_COUNT - 1) :
                  cells[r][(WeekdayOf([grid.date EXCEPT !.day = d]) - grid.base_weekday) % 7]
                      = GridOffset + d

\* Gregorian 2025-11 with base Saturday
C2_Witness ==
    /\ gpc = "done"
    /\ grid.date.tag = "Gregorian" /\ grid.date.year = 2025 /\ grid.date.month = 11
    /\ grid.base_weekday = 6
    /\ ~grid.ordinal_mode
    /\ cells[0][0] = 1
    /\ cells[4] = [c \in 0..6 |-> IF c = 0 THEN 29 ELSE IF c = 1 THEN 30 ELSE 0]
    /\ \A c \in 0..6 : cells[5][c] = 0

----------------------------------------------------------------------------
(* Layout specification: Args::sync_layout followed by one Layout::print   *)
(* pass, or a print pass on a Layout built directly.                       *)

LayoutDates ==
    { Greg(2025, 1, 15), Greg(2025, 11, 1), Greg(2025, 12, 31), Greg(9999, 11, 1),
      Jal(1404, 12, 29), Jal(1403, 11, 5) }

WidthChars == {0, 22, 45, 60, 80}

\* --columns: absent (3, auto), `auto` (usize::MAX, auto), or a number >= 1
ColumnChoices == {<<3, TRUE>>, <<AUTO_COLUMNS_CAP, TRUE>>, <<1, FALSE>>, <<2, FALSE>>}

\* the months setters and --year: (months, full_year_mode)
MonthChoices == {<<n, FALSE>> : n \in 1..MaxMonths} \cup {<<12, TRUE>>}

\* Args and Layout as update_from_arg_matches leaves them before sync_layout
ArgsInit ==
    /\ \E now \in LayoutDates, mc \in MonthChoices, span \in BOOLEAN,
          cc \in ColumnChoices, w \in WidthChars :
          args = [used |-> TRUE, months |-> mc[1], span |-> span, columns |-> cc[1],
                  auto_columns |-> cc[2], width_chars |-> w, now |-> now,
                  full_year_mode |-> mc[2]]
    /\ \E v \in BOOLEAN, o \in BOOLEAN, wn \in {"none", "based"}, yih \in BOOLEAN :
          /\ (args.full_year_mode => ~yih)
          /\ layout = [DefaultLayout EXCEPT !.vertical = v, !.ordinal_mode = o,
                                            !.weeknums = wn, !.year_in_header = yih,
                                            !.base_weekday = IF args.now.tag = "Jalali" THEN 6 ELSE 0]
    /\ lpc = "args"
    /\ run = NoRun

\* a Layout value handed to print without Args
DirectInit ==
    /\ args = DefaultArgs
    /\ \E dt \in LayoutDates, mc \in 0..(MaxMonths - 1), n \in 0..3, v \in BOOLEAN,
          cw \in {"none", "true", "false"}, yih \in BOOLEAN :
          layout = [DefaultLayout EXCEPT !.date = dt, !.more_columns = mc,
                                         !.next_row_after_column = n, !.vertical = v,
                                         !.common_weekday = cw, !.year_in_header = yih]
    /\ lpc = "synced"
    /\ run = NoRun

LayoutInit == ArgsInit \/ DirectInit

CallSyncLayout ==
    /\ lpc = "args"
    /\ layout' = SyncLayout(args, layout)
    /\ lpc' = "synced"
    /\ UNCHANGED <<args, run, dateVars, gridVars, rowVars, stringVars>>

\* print, lines 673-718: everything before the loop
PrintBegin ==
    /\ lpc = "synced"
    /\ LET common == CommonWeekdaysIsEnabled(layout)
           l1 == IF common THEN [layout EXCEPT !.weekdays = FALSE] ELSE layout
           months_requested == l1.more_columns + 1
           l2 == IF CrossesYear(l1, months_requested)
                 THEN [l1 EXCEPT !.year_in_header = TRUE] ELSE l1
       IN  /\ layout' = [l2 EXCEPT !.more_columns =
                            MoreColumnsNewValue(months_requested, 0, l2.next_row_after_column)]
           /\ run' = [NoRun EXCEPT !.months_requested = months_requested,
                                   !.prefixed = (common /\ l1.vertical),
                                   !.start = layout.date,
                                   !.configured_year_in_header = layout.year_in_header]
    /\ lpc' = "loop"
    /\ UNCHANGED <<args, dateVars, gridVars, rowVars, stringVars>>

\* print, lines 719-729: one iteration of the while loop
PrintRow ==
    /\ lpc = "loop"
    /\ LET printed == run.printed_months + layout.more_columns + 1
           r == FormatMut(layout.date, layout.more_columns, <<>>)
       IN  /\ run' = [run EXCEPT !.printed_months = printed,
                                 !.rendered = run.rendered \o r.months,
                                 !.rows = Append(run.rows, layout.more_columns + 1),
                                 !.widths = Append(run.widths,
                                     PrintedLineWidth(layout, layout.more_columns + 1, run.prefixed))]
           /\ layout' = [layout EXCEPT !.date = r.date,
                            !.more_columns = MoreColumnsNewValue(run.months_requested, printed,
                                                                 layout.next_row_after_column)]
           /\ lpc' = IF printed < run.months_requested THEN "loop" ELSE "done"
    /\ UNCHANGED <<args, dateVars, gridVars, rowVars, stringVars>>

LayoutNext ==
    \/ CallSyncLayout
    \/ PrintBegin
    \/ PrintRow

LayoutSpecInit == LayoutInit /\ DateIdle /\ GridIdle /\ RowIdle /\ StringIdle

LayoutSpec == LayoutSpecInit /\ [][LayoutNext]_vars

----------------------------------------------------------------------------
(* Properties of Layout::print and Args::sync_layout *)

\* the month i months after dt, by calendar arithmetic
MonthAfter(dt, i) ==
    [tag |-> dt.tag, year |-> (MonthIndex(dt) + i) \div 12, month |-> ((MonthIndex(dt) + i) % 12) + 1]

PrintDoneRight ==
    lpc = "done" =>
        /\ Len(run.rendered) = run.months_requested
        /\ run.printed_months = run.months_requested
        /\ TargetInRange(run.start, run.months_requested - 1) =>
              \A i \in 1..Len(run.rendered) : run.rendered[i] = MonthAfter(run.start, i - 1)

\* every iteration of the loop renders at least one month and never more than
\* remain, so the loop ends after at most N iterations
LoopProgress ==
    lpc = "loop" =>
        /\ run'.printed_months > run.printed_months
        /\ run'.printed_months <= run.months_requested
        /\ Len(run'.rendered) = run'.printed_months
        /\ (lpc' = "done") = (run'.printed_months = run.months_requested)

\* C3: print with N requested months terminates (every loop iteration makes
\* progress towards N) after rendering exactly N month columns, and inside the
\* supported year range the i-th rendered column is the month exactly i months
\* after the start month.
C3_PrintRendersEveryMonth == [](PrintDoneRight) /\ [][LoopProgress]_vars

C3_Witness ==
    /\ lpc = "done"
    /\ run.months_requested = 5
    /\ Len(run.rows) = 3
    /\ run.rendered[1].month = 11
    /\ run.rendered[5].month = 3
    /\ run.rendered[5].year = run.rendered[1].year + 1

\* C4: print forces year_in_header exactly when the first and the last rendered
\* month lie in different calendar years; otherwise year_in_header keeps its
\* configured value.
C4_YearInHeaderIffCrossing ==
    lpc = "done" =>
        layout.year_in_header =
            (run.configured_year_in_header
                \/ run.rendered[1].year # run.rendered[Len(run.rendered)].year)

\* the columns of a row that print renders within `width`: the largest n whose
\* printed line is no wider than `width` (0 when not even one column fits)
PrintedLayout(L) == IF CommonWeekdaysIsEnabled(L) THEN [L EXCEPT !.weekdays = FALSE] ELSE L

FitsPrinted(L, n, width) ==
    n = 0 \/ PrintedLineWidth(PrintedLayout(L), n, L.vertical /\ CommonWeekdaysIsEnabled(L)) <= width

MaxColumnsPrinted(L, width) ==
    CHOOSE n \in 0..width : FitsPrinted(L, n, width) /\ ~FitsPrinted(L, n + 1, width)

\* C5: with auto-fit, sync_layout stores clamp(M, 1, columns) in
\* next_row_after_column, M being the largest number of columns whose printed row
\* fits in width_chars; without auto-fit it stores the requested column count.
C5_AutoFitIsMaximal ==
    (lpc = "synced" /\ args.used) =>
        layout.next_row_after_column =
            IF args.auto_columns
            THEN Clamp(MaxColumnsPrinted(layout, args.width_chars), 1, args.columns)
            ELSE args.columns

----------------------------------------------------------------------------
(* Row specification: one call of Grid::format, format_weeknums,           *)
(* ColumnContent::format, Row::format_mut or Row::columns_in_width on a    *)
(* Row of any lane configuration.                                          *)

MaxMoreColumns == 2

RowDates ==
    { Greg(2025, 11, 1), Greg(2025, 1, 15), Greg(2021, 1, 1), Greg(2015, 2, 1),
      Greg(2025, 12, 31), Greg(9999, 12, 1), Greg(-9999, 1, 1),
      Jal(1404, 1, 1), Jal(1403, 12, 30), Jal(1404, 8, 10) }

RowMultiDates == { Greg(2025, 11, 1), Greg(2025, 1, 15), Greg(9999, 12, 1), Jal(1403, 12, 30) }

RowBaseWeekdays == {0, 3, 6}

\* (column delimiter, row delimiter)
DelimiterChoices ==
    { <<DEFAULT_DELIMITER, DEFAULT_DELIMITER \o DEFAULT_DELIMITER \o DEFAULT_DELIMITER>>,
      << <<"|">>, <<>> >>,
      << <<>>, <<" ">> >> }

DayHighlights ==
    { [kind |-> "day", date |-> d, week |-> 0] :
        d \in {Greg(2025, 11, 1), Jal(1404, 8, 10), Greg(2025, 3, 21)} }

WeekHighlights == { [kind |-> "week", date |-> NoDate, week |-> w] : w \in {44} }

MaximumWidths == {0, 14, 20, 43, 47, 100}

\* one default column of every month, base weekday and week-number rule, and the
\* same months in ordinal mode
RowMonthConfigs ==
    { [DefaultRow EXCEPT !.date = dt, !.base_weekday = b, !.weeknums = wn] :
        dt \in RowDates, b \in RowBaseWeekdays, wn \in {"based", "iso"} }
    \cup { [DefaultRow EXCEPT !.date = dt, !.ordinal_mode = TRUE] : dt \in RowDates }

\* every lane configuration of one column
RowLaneConfigs ==
    { [DefaultRow EXCEPT !.date = Greg(2015, 2, 1), !.ordinal_mode = o, !.weeknums = wn,
                         !.weeknums_before_grid = wb, !.weekdays = wd,
                         !.weekdays_before_grid = db] :
        o \in BOOLEAN, wn \in {"none", "based", "iso"}, wb \in BOOLEAN, wd \in BOOLEAN,
        db \in BOOLEAN }

\* rows of several columns with every delimiter choice and orientation
RowMultiConfigs ==
    { [DefaultRow EXCEPT !.date = dt, !.base_weekday = IF dt.tag = "Jalali" THEN 6 ELSE 0,
                         !.ordinal_mode = o, !.weeknums = IF o THEN "none" ELSE "based",
                         !.vertical = v, !.year_in_header = ~v, !.more_columns = k,
                         !.delimiter = dl[1], !.row_delimiter = dl[2]] :
        dt \in RowMultiDates, o \in BOOLEAN, v \in BOOLEAN, k \in 0..MaxMoreColumns,
        dl \in DelimiterChoices }

\* every lane configuration of one vertical column, with a one-character or
\* an empty cell delimiter
RowVerticalConfigs ==
    { [DefaultRow EXCEPT !.date = Greg(2025, 11, 1), !.vertical = TRUE, !.ordinal_mode = o,
                         !.year_in_header = ~o, !.weeknums = wn,
                         !.weeknums_before_grid = wb, !.weekdays = wd,
                         !.weekdays_before_grid = db,
                         !.delimiter = IF db THEN <<"|">> ELSE <<>>] :
        o \in BOOLEAN, wn \in {"none", "based"}, wb \in BOOLEAN, wd \in BOOLEAN,
        db \in BOOLEAN }

\* rows that Layout::print is called on: one or three months from November
\* 2025, both orientations and both week-number placements
RowPrintConfigs ==
    { [DefaultRow EXCEPT !.date = Greg(2025, 11, 1), !.vertical = v, !.ordinal_mode = o,
                         !.weeknums = wn, !.weeknums_before_grid = wb, !.more_columns = k,
                         !.delimiter = <<"|">>] :
        v \in BOOLEAN, o \in BOOLEAN, wn \in {"none", "based"}, wb \in BOOLEAN, k \in {0, 2} }

\* the Layout around a Row
LayoutOfRow(row, next_row_after_column, common_weekday) ==
    [f \in DOMAIN DefaultLayout |->
        IF f = "next_row_after_column" THEN next_row_after_column
        ELSE IF f = "common_weekday" THEN common_weekday
        ELSE row[f]]

CommonWeekdayCellsNoHeader(L) ==
    [i \in 1..Len(FormatWeekdaysForce(L)) |->
        FormatInDayCell(L, FormatWeekdaysForce(L)[i]) \o L.delimiter]

\* print, lines 677-689: the cells of the common weekday lane, an empty one
\* first, each in a day cell and followed by the column delimiter
CommonWeekdayCells(L) ==
    [i \in 1..(1 + Len(FormatWeekdaysForce(L))) |->
        FormatInDayCell(L, IF i = 1 THEN <<>> ELSE FormatWeekdaysForce(L)[i - 1]) \o L.delimiter]

\* print, lines 721-726: the lines of one row, each after the next prefix of
\* the cycle when there are prefixes
PrintedRowLines(L, lines, prefixes, taken) ==
    [k \in 1..Len(lines) |->
        [date |-> L.date,
         columns |-> L.more_columns + 1,
         prefix |-> IF Len(prefixes) = 0 THEN <<>>
                    ELSE prefixes[((taken + k - 1) % Len(prefixes)) + 1],
         line |-> lines[k]]]

\* print, lines 719-729: the while loop
RECURSIVE PrintLoop(_, _, _, _, _, _)

PrintRowDone(L, formatted, months_requested, printed_months, prefixes, out) ==
    PrintLoop([formatted.row EXCEPT !.more_columns =
                   MoreColumnsNewValue(months_requested, printed_months,
                                       L.next_row_after_column)],
              NoHighlight, months_requested, printed_months, prefixes,
              out \o PrintedRowLines(L, formatted.lines, prefixes, Len(out)))

PrintRowOf(row, h, months_requested, printed_months, prefixes, out) ==
    CHOOSE all \in { PrintRowDone(row, formatted, months_requested, printed_months, prefixes, out) :
                       formatted \in {RowFormatMut(row, h)} } : TRUE

PrintLoop(L, h, months_requested, printed_months, prefixes, out) ==
    IF printed_months >= months_requested THEN out
    ELSE CHOOSE all \in { PrintRowOf(row, h, months_requested, printed, prefixes, done) :
                            row \in {L}, printed \in {printed_months + L.more_columns + 1},
                            done \in {out} } : TRUE

\* print, lines 693-717: the year in the header and the first row's columns
PrintFrom(L, months_requested, prefixes) ==
    PrintLoop([L EXCEPT !.year_in_header = L.year_in_header \/ CrossesYear(L, months_requested),
                        !.more_columns = MoreColumnsNewValue(months_requested, 0,
                                                             L.next_row_after_column)],
              NoHighlight, months_requested, 0, prefixes, <<>>)

\* Layout::print: the line printed at once for a horizontal common weekday
\* lane, and the lines of the rows
LayoutPrint(L) ==
    IF CommonWeekdaysIsEnabled(L)
    THEN CHOOSE r \in { [top |-> IF L.vertical THEN <<>> ELSE <<Join(weekdays, L.delimiter)>>,
                          printed |-> PrintFrom([L EXCEPT !.weekdays = FALSE], L.more_columns + 1,
                                                IF L.vertical THEN weekdays ELSE <<>>)] :
                         weekdays \in {CommonWeekdayCells([L EXCEPT !.weekdays = FALSE])} } : TRUE
    ELSE [top |-> <<>>, printed |-> PrintFrom(L, L.more_columns + 1, <<>>)]

RowInit ==
    /\ base_row \in RowMonthConfigs \cup RowLaneConfigs \cup RowMultiConfigs
                      \cup RowVerticalConfigs \cup RowPrintConfigs
    /\ rout = NoOut
    /\ rpc = "new"

\* the Rows each function is called on
GridInputs == RowMonthConfigs

ContentInputs == RowMonthConfigs \cup RowLaneConfigs

ColumnInputs == RowLaneConfigs \cup RowVerticalConfigs \cup RowMultiConfigs

CallGridFormat ==
    /\ rpc = "new"
    /\ base_row \in GridInputs
    /\ \E h \in {NoHighlight} \cup DayHighlights :
          rout' = [NoOut EXCEPT !.h = h, !.before = base_row,
                                !.raw = NewGrid(base_row).cells,
                                !.grid = GridFormat(base_row, HighlightDay(h))]
    /\ rpc' = "grid_format"
    /\ UNCHANGED <<base_row, dateVars, gridVars, layoutVars, stringVars>>

CallFormatWeeknums ==
    /\ rpc = "new"
    /\ base_row \in GridInputs
    /\ base_row.weeknums # "none"
    /\ \E h \in {NoHighlight} \cup WeekHighlights :
          rout' = [NoOut EXCEPT !.h = h, !.before = base_row,
                                !.raw = NewGrid(base_row).cells,
                                !.weeknums = FormatWeeknums(base_row.date, base_row.base_weekday,
                                                            base_row.weeknums, HighlightWeek(h))]
    /\ rpc' = "format_weeknums"
    /\ UNCHANGED <<base_row, dateVars, gridVars, layoutVars, stringVars>>

CallContentFormat ==
    /\ rpc = "new"
    /\ base_row \in ContentInputs
    /\ \E h \in {NoHighlight, [kind |-> "day", date |-> Greg(2025, 11, 1), week |-> 0],
                 [kind |-> "week", date |-> NoDate, week |-> 44]} :
          rout' = [NoOut EXCEPT !.h = h, !.before = base_row,
                                !.raw = NewGrid(base_row).cells,
                                !.content = ContentFormat(base_row, h)]
    /\ rpc' = "content_format"
    /\ UNCHANGED <<base_row, dateVars, gridVars, layoutVars, stringVars>>

CallColumnFormat ==
    /\ rpc = "new"
    /\ base_row \in ColumnInputs
    /\ \E h \in WeekHighlights \cup {NoHighlight} :
          rout' = [NoOut EXCEPT !.h = h, !.before = base_row,
                                !.content = ContentFormat(base_row, h),
                                !.lines = ColumnFormat(base_row, h)]
    /\ rpc' = "column_format"
    /\ UNCHANGED <<base_row, dateVars, gridVars, layoutVars, stringVars>>

CallFormatMut ==
    /\ rpc = "new"
    /\ base_row \in RowMultiConfigs
    /\ \E h \in {NoHighlight} :
          LET r == RowFormatMut(base_row, h)
          IN  /\ base_row' = r.row
              /\ rout' = [NoOut EXCEPT !.h = h, !.before = base_row, !.lines = r.lines,
                                       !.rendered = r.rendered]
    /\ rpc' = "format_mut"
    /\ UNCHANGED <<dateVars, gridVars, layoutVars, stringVars>>

CallColumnsInWidth ==
    /\ rpc = "new"
    /\ base_row \in ColumnInputs
    /\ \E w \in MaximumWidths :
          rout' = [NoOut EXCEPT !.before = base_row, !.maximum_width = w,
                                !.div_by_zero = (w >= ColumnWidth(base_row)
                                                    /\ RowColumnStride(base_row) = 0),
                                !.n = IF RowColumnStride(base_row) = 0 THEN 0
                                      ELSE RowColumnsInWidth(base_row, w)]
    /\ rpc' = "columns_in_width"
    /\ UNCHANGED <<base_row, dateVars, gridVars, layoutVars, stringVars>>

CallLayoutPrint ==
    /\ rpc = "new"
    /\ base_row \in RowPrintConfigs
    /\ \E n \in {0, 2}, cw \in {"none", "true", "false"} :
          \E out \in {LayoutPrint(LayoutOfRow(base_row, n, cw))} :
              rout' = [NoOut EXCEPT !.before = base_row,
                                    !.layout = LayoutOfRow(base_row, n, cw),
                                    !.top = out.top, !.printed = out.printed]
    /\ rpc' = "print"
    /\ UNCHANGED <<base_row, dateVars, gridVars, layoutVars, stringVars>>

RowNext ==
    \/ CallLayoutPrint
    \/ CallGridFormat
    \/ CallFormatWeeknums
    \/ CallContentFormat
    \/ CallColumnFormat
    \/ CallFormatMut
    \/ CallColumnsInWidth

RowSpecInit == RowInit /\ DateIdle /\ GridIdle /\ LayoutIdle /\ StringIdle

RowSpec == RowSpecInit /\ [][RowNext]_vars

----------------------------------------------------------------------------
(* Properties of the Row specification                                     *)

GridPositions == (0..(WEEK_COUNT - 1)) \X (0..(WEEK_DAYS - 1))

\* the day a grid cell stands for, counted in days: the year's first day plus
\* the ordinal in ordinal mode, the month's first day plus the day otherwise
CellDayNumber(L, value) ==
    IF L.ordinal_mode
    THEN DayNumber([L.date EXCEPT !.month = 1, !.day = 1]) + value - 1
    ELSE DayNumber(FirstOfMonth(L.date)) + value - 1

InMonth(L, dt) ==
    /\ DayNumber(dt) >= DayNumber(FirstOfMonth(L.date))
    /\ DayNumber(dt) < DayNumber(FirstOfMonth(L.date)) + MonthEndDay(L.date)

HighlightedCells == { p \in GridPositions : IsHighlighted(rout.grid[p[1]][p[2]]) }

\* C11: Grid::format(Some(h)) styles exactly the non-blank cells whose day is
\* the day h names, in whichever calendar h is given; that is at most one cell,
\* none when h lies outside the month, never a blank cell, and
\* Grid::format(None) styles nothing.
C11_HighlightExactlyTheDay ==
    rpc = "grid_format" =>
        /\ HighlightedCells =
              { p \in GridPositions :
                    /\ rout.h.kind = "day"
                    /\ rout.raw[p[1]][p[2]] # 0
                    /\ CellDayNumber(rout.before, rout.raw[p[1]][p[2]]) = DayNumber(rout.h.date) }
        /\ Cardinality(HighlightedCells) <= 1
        /\ \A p \in HighlightedCells : ~IsBlank(Visible(rout.grid[p[1]][p[2]]))
        /\ (rout.h.kind = "day" /\ ~InMonth(rout.before, rout.h.date)) => HighlightedCells = {}
        /\ rout.h.kind # "day" => HighlightedCells = {}

\* Gregorian November 2025 in ordinal mode with the Jalali date 1404-08-10
\* (the same day as 2025-11-01) to highlight: the cell of ordinal 305 is styled
C11_Witness ==
    /\ rpc = "grid_format"
    /\ rout.before.date = Greg(2025, 11, 1)
    /\ rout.before.ordinal_mode
    /\ rout.h = [kind |-> "day", date |-> Jal(1404, 8, 10), week |-> 0]
    /\ HighlightedCells = {<<0, 6>>}
    /\ rout.grid[0][6] = Highlight(<<"3", "0", "5">>)

\* the number a formatted cell shows: its visible digits read as a decimal
DigitValue(ch) == CHOOSE v \in 0..9 : DigitChars[v + 1] = ch

RECURSIVE ParseDigits(_, _, _)
ParseDigits(t, i, acc) ==
    IF i > Len(t) THEN acc
    ELSE IF t[i] = " " THEN ParseDigits(t, i + 1, acc)
    ELSE ParseDigits(t, i + 1, 10 * acc + DigitValue(t[i]))

ParseCell(t) == ParseDigits(Visible(t), 1, 0)

\* position and number of every non-blank cell of the formatted grid
ShownCells ==
    { <<p, ParseCell(rout.grid[p[1]][p[2]])>> :
        p \in { q \in GridPositions : ~IsBlank(Visible(rout.grid[q[1]][q[2]])) } }

\* position of day d when the month's first day sits `lead` cells into row 0
DayPosition(lead, d) == <<(lead + d - 1) \div WEEK_DAYS, (lead + d - 1) % WEEK_DAYS>>

\* the non-zero numbers of one rendered column
ColumnNumbers(raw) == { raw[p[1]][p[2]] : p \in GridPositions } \ {0}

SetMax(S) == CHOOSE x \in S : \A y \in S : y <= x

SetMin(S) == CHOOSE x \in S : \A y \in S : x <= y

\* C12: in ordinal mode the cell of every day of the month shows the day's
\* ordinal in its year (day + ordinal of the month's first day - 1), otherwise
\* the day of the month; every cell is 3 wide in ordinal mode and 2 otherwise;
\* and in the columns one Row renders for consecutive months of one year in
\* ordinal mode, a month's first number follows the previous month's last.
C12_OrdinalCells ==
    /\ rpc = "grid_format" =>
          LET L == rout.before
              lead == (WeekdayOf(FirstOfMonth(L.date)) - L.base_weekday) % 7
          IN  /\ ShownCells =
                    { <<DayPosition(lead, d),
                        IF L.ordinal_mode THEN OrdinalOf([L.date EXCEPT !.day = d]) ELSE d>> :
                      d \in 1..MonthEndDay(L.date) }
              /\ \A p \in GridPositions :
                    AnsiWidth(rout.grid[p[1]][p[2]]) = IF L.ordinal_mode THEN 3 ELSE 2
    /\ rpc = "format_mut" =>
          \A j \in 1..(Len(rout.rendered) - 1) :
              LET this == rout.rendered[j]
                  next == rout.rendered[j + 1]
              IN  IF rout.before.ordinal_mode
                  THEN (this.date.year = next.date.year
                            /\ next.date.month = this.date.month + 1) =>
                          SetMin(ColumnNumbers(next.raw)) = SetMax(ColumnNumbers(this.raw)) + 1
                  ELSE SetMin(ColumnNumbers(next.raw)) = 1

\* Gregorian November and December 2025 in one ordinal Row: 334 ends
\* November and 335 starts December
C12_Witness ==
    /\ rpc = "format_mut"
    /\ rout.before.ordinal_mode
    /\ rout.before.date = Greg(2025, 11, 1)
    /\ Len(rout.rendered) >= 2
    /\ SetMax(ColumnNumbers(rout.rendered[1].raw)) = 334
    /\ SetMin(ColumnNumbers(rout.rendered[2].raw)) = 335

\* the last day of the year before dt's year
PreviousYearEnd(dt) ==
    IF dt.tag = "Gregorian" THEN Greg(dt.year - 1, 12, 31)
    ELSE Jal(dt.year - 1, 12, JMonthLen(dt.year - 1, 12))

\* the year before dt's year is one the date type can hold
PreviousYearExists(dt) == dt.tag = "Gregorian" => dt.year > JIFF_MIN_YEAR

\* week number by counting: the number of `base` weekdays from the first day of
\* dt's year up to dt, so the days before the first `base` day are in week 0
CountedWeeknum(dt, base) ==
    Cardinality({ o \in 1..OrdinalOf(dt) :
                    (WeekdayOf([dt EXCEPT !.month = 1, !.day = 1]) + o - 1) % 7 = base })

\* a week number as it is shown: 0 stands for the last week of the year before
ShownWeeknum(dt, w, base) ==
    IF w = 0 THEN CountedWeeknum(PreviousYearEnd(dt), base) ELSE w

\* C13: with WeekNumConfig::Based, format_weeknums returns the week number of
\* the month's first day and the five numbers after it, every non-blank grid
\* row gets the week number (counted from base_weekday) of each of its days,
\* a 0 is shown as the week number of the last day of the year before, and
\* every number is right-aligned to width 2.  Stated for months whose previous
\* year exists in the date type.
C13_BasedWeeknums ==
    (/\ rpc = "format_weeknums"
     /\ rout.before.weeknums = "based"
     /\ PreviousYearExists(rout.before.date)) =>
        LET L == rout.before
            first == FirstOfMonth(L.date)
            lead == (WeekdayOf(first) - L.base_weekday) % 7
        IN  /\ DOMAIN rout.weeknums = 0..(WEEK_COUNT - 1)
            /\ \A i \in 0..(WEEK_COUNT - 1) :
                  /\ AnsiWidth(rout.weeknums[i]) = 2
                  /\ ParseCell(rout.weeknums[i]) =
                        ShownWeeknum(L.date, CountedWeeknum(first, L.base_weekday) + i,
                                     L.base_weekday)
            /\ \A d \in 1..MonthEndDay(L.date) :
                  ParseCell(rout.weeknums[DayPosition(lead, d)[1]]) =
                      ShownWeeknum(L.date,
                                   CountedWeeknum([L.date EXCEPT !.day = d], L.base_weekday),
                                   L.base_weekday)

\* Gregorian January 2025 with base Sunday: the 1st is a Wednesday in week 0,
\* shown as 52, the week number of 2024-12-31; the next row is week 1
C13_Witness ==
    /\ rpc = "format_weeknums"
    /\ rout.before.weeknums = "based"
    /\ rout.before.date = Greg(2025, 1, 15)
    /\ rout.before.base_weekday = 0
    /\ rout.h.kind = "none"
    /\ rout.weeknums[0] = <<"5", "2">>
    /\ rout.weeknums[1] = <<" ", "1">>

\* C14: in format_weeknums a computed week number of 0 is shown as the week
\* number of the last day of the year before, computed under the rule that
\* produced the 0: iso_weeknum for WeekNumConfig::Iso, weeknum(base_weekday)
\* for WeekNumConfig::Based.
C14_ZeroResolvedUnderSameRule ==
    (rpc = "format_weeknums" /\ PreviousYearExists(rout.before.date)) =>
        LET L == rout.before
            computed == Weeknums(L.weeknums, L.date, L.base_weekday)
        IN  \A i \in 0..(WEEK_COUNT - 1) :
                computed[i] = 0 =>
                    ParseCell(rout.weeknums[i]) =
                        IF L.weeknums = "iso" THEN IsoWeeknum(PreviousYearEnd(L.date))
                        ELSE Weeknum(PreviousYearEnd(L.date), L.base_weekday)

----------------------------------------------------------------------------
(* set_saturating_weeknum, on the Date specification                       *)

\* the day with ordinal o in the year of dt
DayOfYear(dt, o) == SetOrdinal(dt, o).d

\* the ordinals of dt's year whose week number, counted from base, is w
OrdinalsOfWeek(dt, w, base) ==
    { o \in 1..YearEndOrdinal(dt) : CountedWeeknum(DayOfYear(dt, o), base) = w }

\* C15: set_saturating_weeknum(w, base) leaves the date on the first day of
\* week w (clamped to 0..=53) of the same year: its week number is w, no
\* earlier day of the year has week number w, and for w >= 1 its weekday is
\* base; a w past the year's last week leaves the year's last ordinal.
C15_WeeknumSetsFirstDayOfWeek ==
    (last.op = "weeknum" /\ ~panicked) =>
        LET w == Clamp(last.arg, 0, 53)
            days == OrdinalsOfWeek(last.prev, w, last.base)
        IN  /\ date.tag = last.prev.tag
            /\ date.year = last.prev.year
            /\ days # {} => /\ OrdinalOf(date) = SetMin(days)
                            /\ (w >= 1 => WeekdayOf(date) = last.base)
            /\ (days = {} /\ w >= 1) => OrdinalOf(date) = YearEndOrdinal(date)

----------------------------------------------------------------------------
(* Row::format_mut, Row::columns_in_width and ColumnContent::format, on    *)
(* the Row specification                                                   *)

\* the first day of the month n months after the month of dt
MonthPlus(dt, n) ==
    LET t == dt.year * 12 + (dt.month - 1) + n
    IN  [dt EXCEPT !.year = t \div 12, !.month = (t % 12) + 1, !.day = 1]

\* the month n months after dt is one the date type can hold
MonthInRange(dt, n) ==
    dt.tag = "Gregorian" =>
        /\ MonthPlus(dt, n).year <= JIFF_MAX_YEAR
        /\ MonthPlus(dt, n).year >= JIFF_MIN_YEAR

\* the lines of the single column of Row L for the month n months later
LinesOfMonth(L, n, h) == ColumnFormat([L EXCEPT !.date = MonthPlus(L.date, n)], h)

\* C16: Row::format_mut with more_columns = k and the date in month s returns
\* the lines of the k+1 columns of months s..s+k, every line being the columns'
\* lines joined in order by the Row's delimiter; afterwards the Row's date is
\* in month s+k+1, more_columns is 0 and every other field is as before.
\* Stated for Rows whose month s+k+1 exists in the date type.
C16_FormatMutRendersAndAdvances ==
    (rpc = "format_mut" /\ MonthInRange(rout.before.date, rout.before.more_columns + 1)) =>
        LET L == rout.before
            k == L.more_columns
        IN  /\ Len(rout.rendered) = k + 1
            /\ \A j \in 1..(k + 1) :
                  /\ rout.rendered[j].date.year = MonthPlus(L.date, j - 1).year
                  /\ rout.rendered[j].date.month = MonthPlus(L.date, j - 1).month
            /\ Len(rout.lines) = Len(LinesOfMonth(L, 0, rout.h))
            /\ \A n \in 1..Len(rout.lines) :
                  rout.lines[n] =
                      Join([j \in 1..(k + 1) |-> LinesOfMonth(L, j - 1, rout.h)[n]],
                           L.row_delimiter)
            /\ base_row.date.tag = L.date.tag
            /\ base_row.date.year = MonthPlus(L.date, k + 1).year
            /\ base_row.date.month = MonthPlus(L.date, k + 1).month
            /\ base_row.more_columns = 0
            /\ base_row = [L EXCEPT !.date = base_row.date, !.more_columns = 0]

\* November and December 2025 in one Row with the delimiter "|" between the
\* cells and nothing between the columns: the Row ends in January 2026
C16_Witness ==
    /\ rpc = "format_mut"
    /\ rout.before.date = Greg(2025, 11, 1)
    /\ rout.before.more_columns = 1
    /\ rout.before.row_delimiter = <<>>
    /\ ~rout.before.vertical
    /\ Len(rout.lines) = 8
    /\ Len(rout.rendered) = 2
    /\ rout.rendered[2].date.month = 12
    /\ base_row.date.year = 2026 /\ base_row.date.month = 1
    /\ base_row.more_columns = 0

\* the width of n columns of Row L side by side, n >= 1
WidthOfColumns(L, n) == n * ColumnWidth(L) + (n - 1) * AnsiWidth(L.row_delimiter)

\* C17: Row::columns_in_width(max_width) returns the largest n for which n
\* columns and the n - 1 delimiters between them are at most max_width wide,
\* so Row::width() fits with n columns and not with n + 1; it returns 0 exactly
\* when one column is wider than max_width; it never divides by zero, also
\* when the delimiter is empty.
C17_ColumnsInWidthIsMaximal ==
    rpc = "columns_in_width" =>
        LET L == rout.before
            w == rout.maximum_width
            n == rout.n
        IN  /\ ~rout.div_by_zero
            /\ (n = 0) <=> (ColumnWidth(L) > w)
            /\ n >= 1 =>
                  /\ WidthOfColumns(L, n) <= w
                  /\ WidthOfColumns(L, n + 1) > w
                  /\ RowWidth([L EXCEPT !.more_columns = n - 1]) <= w
                  /\ RowWidth([L EXCEPT !.more_columns = n]) > w

\* columns 20 wide with an empty delimiter between them: 5 fit in 100, and
\* with the 3-wide default delimiter exactly 2 fit in 43
C17_Witness ==
    /\ rpc = "columns_in_width"
    /\ rout.before.row_delimiter = <<>>
    /\ ColumnWidth(rout.before) = 20
    /\ rout.maximum_width = 100
    /\ rout.n = 5

----------------------------------------------------------------------------
(* Args::start_month, on the Layout specification                          *)

\* C18: outside full-year mode, with span set and N > 1 months the first
\* rendered month is ceil((N - 1) / 2) months before the reference month, so
\* the reference month is one of the N rendered months and a span of 3 renders
\* the month before, the month and the month after, in that order, also across
\* a year boundary; with span unset or N = 1 the first rendered month is the
\* reference month.
C18_SpanStartsHalfBefore ==
    (args.used /\ ~args.full_year_mode) =>
        /\ lpc = "synced" =>
              /\ MonthOf(layout.date) =
                    IF args.span /\ args.months > 1
                    THEN MonthAfter(args.now, -((args.months - 1 + 1) \div 2))
                    ELSE MonthOf(args.now)
              /\ \E i \in 0..(args.months - 1) :
                    MonthAfter(layout.date, i) = MonthOf(args.now)
        /\ (lpc = "done" /\ args.span /\ args.months = 3) =>
              run.rendered = <<MonthAfter(args.now, -1), MonthOf(args.now),
                               MonthAfter(args.now, 1)>>

\* a span of 3 months around January 2025 starts in December 2024
C18_Witness ==
    /\ lpc = "done"
    /\ args.used /\ args.span /\ ~args.full_year_mode
    /\ args.months = 3
    /\ args.now = Greg(2025, 1, 15)
    /\ run.rendered = << [tag |-> "Gregorian", year |-> 2024, month |-> 12],
                         [tag |-> "Gregorian", year |-> 2025, month |-> 1],
                         [tag |-> "Gregorian", year |-> 2025, month |-> 2] >>

\* C19: for every combination of weeknums (off, Based, Iso), weekdays,
\* weeknums_before_grid and weekdays_before_grid, ColumnContent::format returns
\* a rectangular matrix of row_cols().0 rows (6, or 7 with the weekday lane) of
\* row_cols().1 cells each (7, or 8 with the week-number lane).
C19_ContentIsRectangular ==
    rpc = "content_format" =>
        LET L == rout.before
            rows == WEEK_COUNT + (IF L.weekdays THEN 1 ELSE 0)
            cols == WEEK_DAYS + (IF L.weeknums # "none" THEN 1 ELSE 0)
        IN  /\ RowCols(L) = <<rows, cols>>
            /\ Len(rout.content) = rows
            /\ \A i \in 1..Len(rout.content) : Len(rout.content[i]) = cols

\* ISO week numbers after the grid and weekday names after the grid: 7 rows
\* of 8 cells, the weekday row ending with the empty week-number cell
C19_Witness ==
    /\ rpc = "content_format"
    /\ rout.before.weeknums = "iso"
    /\ rout.before.weekdays
    /\ ~rout.before.weeknums_before_grid
    /\ ~rout.before.weekdays_before_grid
    /\ Len(rout.content) = 7
    /\ Len(rout.content[7]) = 8
    /\ rout.content[7][8] = WEEKNUM_EMPTY
    /\ rout.content[7][1] = <<"S", "u">>

\* the row of the returned matrix that holds grid row i (0-based)
ContentRowOf(L, i) == i + 1 + (IF L.weekdays /\ L.weekdays_before_grid THEN 1 ELSE 0)

\* the cell of the week-number lane in a row of the returned matrix
WeeknumCellOf(L, content_row) ==
    IF L.weeknums_before_grid THEN content_row[1] ELSE content_row[Len(content_row)]

\* C20: with the week-number lane enabled, the week-number cell of grid row i
\* is blank if and only if all 7 day cells of row i are blank, and otherwise is
\* the formatted week number of that row; for every month and base weekday,
\* also for months that fill only 4 or 5 rows.
C20_WeeknumBlankIffRowBlank ==
    (rpc = "content_format" /\ rout.before.weeknums # "none") =>
        LET L == rout.before
            numbers == FormatWeeknums(L.date, L.base_weekday, L.weeknums, HighlightWeek(rout.h))
        IN  \A i \in 0..(WEEK_COUNT - 1) :
                LET cell == WeeknumCellOf(L, rout.content[ContentRowOf(L, i)])
                    row_blank == \A j \in 0..(WEEK_DAYS - 1) : rout.raw[i][j] = 0
                IN  /\ IsBlank(cell) <=> row_blank
                    /\ ~row_blank => cell = numbers[i]
                    /\ row_blank => cell = WEEKNUM_EMPTY

\* Gregorian February 2015 with base Sunday fills 4 rows: weeks 5 to 8, then
\* two blank week-number cells
C20_Witness ==
    /\ rpc = "content_format"
    /\ rout.before.date = Greg(2015, 2, 1)
    /\ rout.before.weeknums = "based"
    /\ rout.before.base_weekday = 0
    /\ rout.before.weeknums_before_grid
    /\ rout.before.weekdays /\ rout.before.weekdays_before_grid
    /\ rout.h.kind = "none"
    /\ rout.content[2][1] = <<" ", "5">>
    /\ rout.content[5][1] = <<" ", "8">>
    /\ rout.content[6][1] = WEEKNUM_EMPTY
    /\ rout.content[7][1] = WEEKNUM_EMPTY

----------------------------------------------------------------------------
(* Column::format, on the Row specification                                *)

Spaces(n) == [i \in 1..n |-> " "]

\* the text of a column header: the month name, and the year in at least 4
\* digits when the header carries it
HeaderText(L) ==
    IF L.year_in_header
    THEN MonthName(L.date) \o <<" ">>
         \o [i \in 1..Max(4 - Len(IntToStr(L.date.year)), 0) |-> "0"] \o IntToStr(L.date.year)
    ELSE MonthName(L.date)

\* a text centered in `width` columns, the odd space on the right; a text
\* wider than that keeps its first `width` characters
Centered(text, width) ==
    IF Len(text) <= width
    THEN Spaces((width - Len(text)) \div 2) \o text
         \o Spaces((width - Len(text)) - ((width - Len(text)) \div 2))
    ELSE SubSeq(text, 1, width)

PaddedCell(L, cell) == Spaces(DayCellWidth(L) - AnsiWidth(cell)) \o cell

\* body line i of the transposed content: cell j is cell i of content row j
TransposedLine(L, content, i) ==
    Join([j \in 1..Len(content) |-> PaddedCell(L, content[j][i])], L.delimiter)

BothLanesBeforeGrid(L) ==
    /\ L.weekdays /\ L.weekdays_before_grid
    /\ L.weeknums # "none" /\ L.weeknums_before_grid

\* C22: in vertical mode Column::format returns 1 + row_cols().1 lines, and
\* cell j of body line i is content[j][i] padded to the width of a day cell, a
\* true transposition of the horizontal content in which no cell is lost or
\* repeated; with both lanes before the grid every weekday line starts with
\* its weekday name and the week numbers form the first body line.
C22_VerticalIsTransposition ==
    (rpc = "column_format" /\ rout.before.vertical) =>
        LET L == rout.before
        IN  /\ Len(rout.lines) = 1 + RowCols(L)[2]
            /\ Len(rout.content) = RowCols(L)[1]
            /\ \A j \in 1..Len(rout.content) : Len(rout.content[j]) = RowCols(L)[2]
            /\ \A i \in 1..RowCols(L)[2] :
                  rout.lines[i + 1] = TransposedLine(L, rout.content, i)
            /\ BothLanesBeforeGrid(L) =>
                  /\ \A k \in 1..WEEK_DAYS :
                        SubSeq(rout.lines[k + 2], 1, DayCellWidth(L))
                            = SubSeq(WeekdayNames(L.base_weekday)[k], 1, DayCellWidth(L))
                  /\ rout.lines[2] =
                        Join(<<PaddedCell(L, WEEKNUM_EMPTY)>> \o
                             [w \in 1..WEEK_COUNT |->
                                 PaddedCell(L, rout.content[w + 1][1])],
                             L.delimiter)
                  /\ \A w \in 1..WEEK_COUNT :
                        rout.content[w + 1][1] \in
                            {WEEKNUM_EMPTY,
                             FormatWeeknums(L.date, L.base_weekday, L.weeknums,
                                            HighlightWeek(rout.h))[w - 1]}

\* November 2025 from Sunday, vertical, ordinal cells, delimiter "|", both lanes
\* before the grid and nothing highlighted: "Sat|305|312|319|326|333|   " is
\* the last of 9 lines and " 43" the first week number
C22_Witness ==
    /\ rpc = "column_format"
    /\ rout.before.vertical /\ rout.before.ordinal_mode
    /\ BothLanesBeforeGrid(rout.before)
    /\ rout.before.delimiter = <<"|">>
    /\ rout.h.kind = "none"
    /\ Len(rout.lines) = 9
    /\ rout.lines[9] = <<"S", "a", "t", "|", "3", "0", "5", "|", "3", "1", "2", "|",
                         "3", "1", "9", "|", "3", "2", "6", "|", "3", "3", "3", "|",
                         " ", " ", " ">>
    /\ SubSeq(rout.lines[2], 1, 7) = <<" ", " ", " ", "|", " ", "4", "3">>

----------------------------------------------------------------------------
(* Month names on the command line (src/src/parser.rs:70-200;              *)
(* src/cal/src/arg_parser.rs:446-451, 476-486)                             *)

ASCII_UPPERCASE ==
    << "A", "B", "C", "D", "E", "F", "G", "H", "I", "J", "K", "L", "M",
       "N", "O", "P", "Q", "R", "S", "T", "U", "V", "W", "X", "Y", "Z" >>

ASCII_LOWERCASE ==
    << "a", "b", "c", "d", "e", "f", "g", "h", "i", "j", "k", "l", "m",
       "n", "o", "p", "q", "r", "s", "t", "u", "v", "w", "x", "y", "z" >>

\* u8::to_ascii_lowercase
ToAsciiLowercase(ch) ==
    IF \E i \in 1..26 : ASCII_UPPERCASE[i] = ch
    THEN ASCII_LOWERCASE[CHOOSE i \in 1..26 : ASCII_UPPERCASE[i] = ch]
    ELSE ch

ToAsciiUppercase(ch) ==
    IF \E i \in 1..26 : ASCII_LOWERCASE[i] = ch
    THEN ASCII_UPPERCASE[CHOOSE i \in 1..26 : ASCII_LOWERCASE[i] = ch]
    ELSE ch

\* IgnoreCasePrefixMatch::eq_up_to_bytes
RECURSIVE EqUpToFrom(_, _, _)
EqUpToFrom(a, b, i) ==
    IF i >= Min(Len(a), Len(b)) THEN Min(Len(a), Len(b))
    ELSE IF ToAsciiLowercase(a[i + 1]) # ToAsciiLowercase(b[i + 1]) THEN i
    ELSE EqUpToFrom(a, b, i + 1)

EqUpToBytes(a, b) == EqUpToFrom(a, b, 0)

\* IgnoreCasePrefixMatch::new: for every entry the longest prefix it shares
\* with another entry
IgnoreCasePrefixMatchNew(list) ==
    [values |-> list,
     common_prefixes |->
        [i \in 1..Len(list) |->
            SetMax({0} \cup { EqUpToBytes(list[i], list[j]) : j \in (1..Len(list)) \ {i} })]]

JALALI_MATCHER == IgnoreCasePrefixMatchNew(JALALI_MONTHS)

GREGORIAN_MATCHER == IgnoreCasePrefixMatchNew(GREGORIAN_MONTHS)

NoMonth == [ok |-> FALSE, month |-> 0]

\* IgnoreCasePrefixMatch::position, as the 0-based index inside an Option
MatcherPosition(matcher, key) ==
    LET hits == { i \in 1..Len(matcher.values) :
                    /\ Len(key) > matcher.common_prefixes[i]
                    /\ Len(key) = EqUpToBytes(matcher.values[i], key) }
    IN  IF hits = {} THEN [some |-> FALSE, i |-> 0]
        ELSE [some |-> TRUE, i |-> SetMin(hits) - 1]

IsDigits(t) == Len(t) >= 1 /\ \A i \in 1..Len(t) : \E v \in 1..10 : DigitChars[v] = t[i]

\* str::parse::<u8>: an optional '+' and decimal digits, at most 255
ParseU8(t) ==
    LET digits == IF Len(t) >= 1 /\ t[1] = "+" THEN Tail(t) ELSE t
    IN  IF IsDigits(digits) /\ ParseDigits(digits, 1, 0) <= 255
        THEN [ok |-> TRUE, v |-> ParseDigits(digits, 1, 0)]
        ELSE [ok |-> FALSE, v |-> 0]

ParseMonthNumeric(t) ==
    IF ParseU8(t).ok /\ ParseU8(t).v \in 1..12 THEN [ok |-> TRUE, month |-> ParseU8(t).v]
    ELSE NoMonth

ParseMonthString(matcher, t) ==
    IF ParseMonthNumeric(t).ok THEN ParseMonthNumeric(t)
    ELSE IF MatcherPosition(matcher, t).some
         THEN [ok |-> TRUE, month |-> MatcherPosition(matcher, t).i + 1]
         ELSE NoMonth

ParseMonth(t) == ParseMonthString(JALALI_MATCHER, t)

ParseJalaliMonth(t) == ParseMonthString(GREGORIAN_MATCHER, t)

\* the match on self.now of the cal argument parser
ParseMonthArg(tag, t) == IF tag = "Jalali" THEN ParseJalaliMonth(t) ELSE ParseMonth(t)

----------------------------------------------------------------------------
(* The String specification: Aligner::right, left and center and cut_end   *)
(* (src/cal/src/string.rs), called with strings of narrow, double-width    *)
(* and zero-width code points.                                             *)

MaxStringLen == 3
MaxTargetWidth == 5

StringChars == {"a", WIDE_GLYPH, ZERO_WIDTH_GLYPH}

StringsUpTo(n) == UNION { [1..k -> StringChars] : k \in 0..n }

\* Aligner::new accepts a filler of any width and a filler_adjust of width 1
AlignerFillers ==
    { <<>>, <<ZERO_WIDTH_GLYPH>>, <<".">>, <<WIDE_GLYPH>>, <<".", ",">>, <<WIDE_GLYPH, ".">>,
      <<ZERO_WIDTH_GLYPH, ".">> }

AlignerNew(filler, filler_adjust) ==
    IF CharWidth(filler_adjust) # 1 THEN [some |-> FALSE, v |-> SPACE]
    ELSE [some |-> TRUE, v |-> [filler |-> filler, filler_adjust |-> filler_adjust]]

Aligners ==
    { B.v : B \in { C \in { AlignerNew(f, c) : f \in AlignerFillers,
                                                c \in {"x", WIDE_GLYPH, ZERO_WIDTH_GLYPH} } :
                      C.some } }
        \cup {SPACE, ZERO, CENTER_DOT}

StringSpecInit ==
    /\ DateIdle /\ GridIdle /\ LayoutIdle /\ RowIdle
    /\ StringIdle

CallRight ==
    /\ spc = "idle"
    /\ \E A \in Aligners, s \in StringsUpTo(MaxStringLen), width \in 0..MaxTargetWidth :
          /\ scall' = [NoCall EXCEPT !.op = "right", !.aligner = A, !.s = s, !.width = width]
          /\ sret' = AlignRight(A, s, width)
    /\ spc' = "right"
    /\ UNCHANGED <<dateVars, gridVars, layoutVars, rowVars>>

CallLeft ==
    /\ spc = "idle"
    /\ \E A \in Aligners, s \in StringsUpTo(MaxStringLen), width \in 0..MaxTargetWidth :
          /\ scall' = [NoCall EXCEPT !.op = "left", !.aligner = A, !.s = s, !.width = width]
          /\ sret' = AlignLeft(A, s, width)
    /\ spc' = "left"
    /\ UNCHANGED <<dateVars, gridVars, layoutVars, rowVars>>

CallCenter ==
    /\ spc = "idle"
    /\ \E A \in Aligners, s \in StringsUpTo(MaxStringLen), width \in 0..MaxTargetWidth :
          /\ scall' = [NoCall EXCEPT !.op = "center", !.aligner = A, !.s = s, !.width = width]
          /\ sret' = AlignCenter(A, s, width)
    /\ spc' = "center"
    /\ UNCHANGED <<dateVars, gridVars, layoutVars, rowVars>>

CallCutEnd ==
    /\ spc = "idle"
    /\ \E s \in StringsUpTo(MaxStringLen), width \in 0..MaxTargetWidth :
          /\ scall' = [NoCall EXCEPT !.op = "cut_end", !.aligner = SPACE, !.s = s, !.width = width]
          /\ sret' = CutEnd(s, width)
    /\ spc' = "cut_end"
    /\ UNCHANGED <<dateVars, gridVars, layoutVars, rowVars>>

\* what is typed for a month: the beginnings of the month names of both
\* calendars as they are spelled, in lower case and in upper case, numbers, and
\* words that are no month
NamePrefixes(list) == UNION { { SubSeq(list[i], 1, k) : k \in 1..Len(list[i]) } : i \in 1..12 }

MonthKeys ==
    LET spelled == NamePrefixes(GREGORIAN_MONTHS) \cup NamePrefixes(JALALI_MONTHS)
    IN  spelled
        \cup { [i \in 1..Len(t) |-> ToAsciiLowercase(t[i])] : t \in spelled }
        \cup { [i \in 1..Len(t) |-> ToAsciiUppercase(t[i])] : t \in spelled }
        \cup { Append(list[i], "x") : list \in {GREGORIAN_MONTHS, JALALI_MONTHS}, i \in 1..12 }
        \cup { ToStr(n) : n \in 0..13 }
        \cup { <<>>, <<"0", "7">>, <<"+", "7">>, <<"-", "1">>, <<"2", "5", "6">>, <<"1", "x">>,
               <<"x">>, <<" ", "m", "a", "y">> }

CallParseMonth ==
    /\ spc = "idle"
    /\ \E s \in MonthKeys :
          /\ scall' = [NoCall EXCEPT !.op = "parse_month", !.s = s]
          /\ sret' = ParseMonth(s)
    /\ spc' = "parse_month"
    /\ UNCHANGED <<dateVars, gridVars, layoutVars, rowVars>>

CallParseJalaliMonth ==
    /\ spc = "idle"
    /\ \E s \in MonthKeys :
          /\ scall' = [NoCall EXCEPT !.op = "parse_jalali_month", !.s = s]
          /\ sret' = ParseJalaliMonth(s)
    /\ spc' = "parse_jalali_month"
    /\ UNCHANGED <<dateVars, gridVars, layoutVars, rowVars>>

\* the MONTH positional of cal, with self.now of either calendar
CallParseMonthArg ==
    /\ spc = "idle"
    /\ \E s \in MonthKeys, tag \in {"Gregorian", "Jalali"} :
          /\ scall' = [NoCall EXCEPT !.op = "month_arg", !.s = s, !.tag = tag]
          /\ sret' = ParseMonthArg(tag, s)
    /\ spc' = "month_arg"
    /\ UNCHANGED <<dateVars, gridVars, layoutVars, rowVars>>

StringNext ==
    \/ CallRight \/ CallLeft \/ CallCenter \/ CallCutEnd
    \/ CallParseMonth \/ CallParseJalaliMonth \/ CallParseMonthArg

StringSpec == StringSpecInit /\ [][StringNext]_vars

IsAlignCall == spc \in {"right", "left", "center"}

\* the padding, in columns, an alignment puts before a content `p` columns
\* narrower than the target
PaddingBefore(op, p) ==
    IF op = "right" THEN p ELSE IF op = "left" THEN 0 ELSE p \div 2

\* `padded` is `content` with `before` columns of `chars` in front of it and
\* `after` columns of them behind it
Surrounds(padded, content, before, after, chars) ==
    \E n \in 0..(Len(padded) - Len(content)) :
        /\ SubSeq(padded, n + 1, n + Len(content)) = content
        /\ AnsiWidth(SubSeq(padded, 1, n)) = before
        /\ AnsiWidth(SubSeq(padded, n + Len(content) + 1, Len(padded))) = after
        /\ \A i \in (1..n) \cup ((n + Len(content) + 1)..Len(padded)) : padded[i] \in chars

FillerChars(A) == {A.filler[i] : i \in 1..Len(A.filler)} \cup {A.filler_adjust}

\* C23: for an Aligner whose filler_adjust is 1 wide and whose filler is empty,
\* zero-width, single-width or double-width, a content no wider than the target
\* comes back unchanged and surrounded by filler, exactly the target wide:
\* right pads before it, left after it, center floor(p/2) before and ceil(p/2)
\* after it; a content as wide as the target comes back as it is.
C23_PaddingReachesTargetWidth ==
    (IsAlignCall /\ AnsiWidth(scall.s) <= scall.width) =>
        LET p == scall.width - AnsiWidth(scall.s)
            before == PaddingBefore(scall.op, p)
        IN  /\ AnsiWidth(sret) = scall.width
            /\ Surrounds(sret, scall.s, before, p - before, FillerChars(scall.aligner))
            /\ p = 0 => sret = scall.s

\* "a" centered to 4 by the double-width filler with 'x' to adjust: the 1 column
\* before cannot hold the glyph and takes the 'x', the 2 columns after take
\* the glyph
C23_Witness ==
    /\ spc = "center"
    /\ scall.aligner = [filler |-> <<WIDE_GLYPH>>, filler_adjust |-> "x"]
    /\ scall.s = <<"a">> /\ scall.width = 4
    /\ sret = <<"x", "a", WIDE_GLYPH>>

\* C24: cut_end(s, w) returns the longest prefix of s, ending between two code
\* points, whose code-point widths sum to at most w: the result is never wider
\* than w and never holds part of a glyph ("x" and a double-width glyph cut at
\* 2 give "x").
C24_CutEndIsLongestFittingPrefix ==
    spc = "cut_end" =>
        \E k \in 0..Len(scall.s) :
            /\ sret = SubSeq(scall.s, 1, k)
            /\ AnsiWidth(sret) <= scall.width
            /\ \A m \in (k + 1)..Len(scall.s) : AnsiWidth(SubSeq(scall.s, 1, m)) > scall.width

C24_Witness ==
    /\ spc = "cut_end"
    /\ scall.s = <<"a", WIDE_GLYPH>> /\ scall.width = 2
    /\ sret = <<"a">>

\* C25: when the content is wider than the target, right, left and center
\* return a string whose width equals the target, for contents of zero-width,
\* single-width and double-width code points.
C25_TruncationReachesTargetWidth ==
    (IsAlignCall /\ AnsiWidth(scall.s) > scall.width) => AnsiWidth(sret) = scall.width

\* the month a typed word names in a table of month names: a number from 1 to
\* 12, or the one name of the table the word begins, whatever the case of its
\* letters; no month otherwise
BeginsName(key, name) ==
    /\ Len(key) >= 1 /\ Len(key) <= Len(name)
    /\ \A i \in 1..Len(key) : ToAsciiLowercase(key[i]) = ToAsciiLowercase(name[i])

NamedMonth(list, key) ==
    IF ParseU8(key).ok /\ ParseU8(key).v \in 1..12 THEN [ok |-> TRUE, month |-> ParseU8(key).v]
    ELSE IF Cardinality({ i \in 1..12 : BeginsName(key, list[i]) }) = 1
         THEN [ok |-> TRUE, month |-> CHOOSE i \in 1..12 : BeginsName(key, list[i])]
         ELSE NoMonth

MonthsOfCalendar(tag) == IF tag = "Jalali" THEN JALALI_MONTHS ELSE GREGORIAN_MONTHS

\* C26: parse_month accepts a number from 1 to 12 or a case-insensitive unique
\* prefix of an English Gregorian month name, parse_jalali_month the same for
\* the Jalali month names, and both refuse everything else; the argument parser
\* of cal resolves a month name against the table of the selected calendar.
C26_MonthNamesOfOwnCalendar ==
    /\ spc = "parse_month" => sret = NamedMonth(GREGORIAN_MONTHS, scall.s)
    /\ spc = "parse_jalali_month" => sret = NamedMonth(JALALI_MONTHS, scall.s)
    /\ spc = "month_arg" => sret = NamedMonth(MonthsOfCalendar(scall.tag), scall.s)

\* what holds instead: each parser answers from the other calendar's table
C26_Swapped ==
    /\ spc = "parse_month" => sret = NamedMonth(JALALI_MONTHS, scall.s)
    /\ spc = "parse_jalali_month" => sret = NamedMonth(GREGORIAN_MONTHS, scall.s)
    /\ spc = "month_arg" =>
          sret = NamedMonth(MonthsOfCalendar(IF scall.tag = "Jalali" THEN "Gregorian" ELSE "Jalali"),
                            scall.s)

----------------------------------------------------------------------------
(* Rows of Layout::print, on the Layout specification                      *)

RowCapacity(L) == Max(L.next_row_after_column, 1)

RECURSIVE SumOf(_)
SumOf(v) == IF Len(v) = 0 THEN 0 ELSE v[1] + SumOf(Tail(v))

\* C28: Layout::print splits the N requested months into rows of exactly
\* max(next_row_after_column, 1) columns, except the last row, which holds
\* between 1 and that many; next_row_after_column = 0 behaves like 1; every
\* iteration of the loop renders at least one month and the number of months
\* printed never exceeds N.
C28_RowsOfCapacity ==
    lpc \in {"loop", "done"} =>
        /\ run.printed_months <= run.months_requested
        /\ run.printed_months = SumOf(run.rows)
        /\ Len(run.rendered) = run.printed_months
        /\ \A r \in 1..Len(run.rows) :
              /\ run.rows[r] >= 1
              /\ run.rows[r] <= RowCapacity(layout)
              /\ (r < Len(run.rows) \/ lpc = "loop") => run.rows[r] = RowCapacity(layout)
        /\ lpc = "done" => run.printed_months = run.months_requested
        /\ lpc = "loop" => run.printed_months < run.months_requested

\* 5 months with next_row_after_column = 2 end as rows of 2, 2 and 1
C28_Witness ==
    /\ lpc = "done"
    /\ layout.next_row_after_column = 2
    /\ run.months_requested = 5
    /\ run.rows = <<2, 2, 1>>

\* next_row_after_column = 0: three months, three rows of one
C28_WitnessZero ==
    /\ lpc = "done"
    /\ layout.next_row_after_column = 0
    /\ run.rows = <<1, 1, 1>>

\* C29: for a Layout built by sync_layout with auto-fit, if one column, with
\* the shared weekday prefix in vertical mode, fits in width_chars then no
\* printed line is wider than width_chars; a wider line is printed only by the
\* floor of 1 column, when not even one column fits.
C29_AutoFitStaysInWidth ==
    (lpc \in {"loop", "done"} /\ args.used /\ args.auto_columns) =>
        /\ FitsPrinted(layout, 1, args.width_chars) =>
              \A r \in 1..Len(run.widths) : run.widths[r] <= args.width_chars
        /\ \A r \in 1..Len(run.widths) :
              run.widths[r] > args.width_chars =>
                  /\ run.rows[r] = 1
                  /\ ~FitsPrinted(layout, 1, args.width_chars)

\* 5 months, vertical, on 45 columns: rows of one or more columns, none wider
\* than 45
C29_Witness ==
    /\ lpc = "done" /\ args.used /\ args.auto_columns
    /\ layout.vertical /\ args.width_chars = 45
    /\ run.months_requested = 5
    /\ FitsPrinted(layout, 1, 45)
    /\ \A r \in 1..Len(run.widths) : run.widths[r] <= 45 /\ run.widths[r] > 0

\* no column fits in 0 columns: every row is the floor of one column
C29_WitnessFloor ==
    /\ lpc = "done" /\ args.used /\ args.auto_columns
    /\ args.width_chars = 0 /\ run.months_requested = 3
    /\ run.rows = <<1, 1, 1>>
    /\ run.widths[1] > 0

----------------------------------------------------------------------------
(* The Gregorian saturating setters, on the Date specification             *)

\* the last day of a Gregorian month, from the calendar rule
LastDayOfMonth(year, month) ==
    IF month = 2
    THEN (IF (year % 4 = 0 /\ year % 100 # 0) \/ year % 400 = 0 THEN 29 ELSE 28)
    ELSE IF month \in {4, 6, 9, 11} THEN 30 ELSE 31

\* C30: on a Gregorian date a saturating setter changes only the field it
\* names, apart from clamping the day again: set_saturating_day keeps year and
\* month; set_saturating_month keeps the year and leaves the day at the smaller
\* of the previous day and the last day of the new month; set_saturating_year
\* keeps the month and leaves the day at the smaller of the previous day and
\* the last day of that month in the new year (29 February becomes 28 February
\* in a common year).
C30_GregorianSettersKeepOtherFields ==
    (last.op \in {"day", "month", "year"} /\ last.prev.tag = "Gregorian") =>
        /\ ~panicked
        /\ date.tag = "Gregorian"
        /\ last.op = "day" =>
              /\ date.year = last.prev.year
              /\ date.month = last.prev.month
        /\ last.op = "month" =>
              /\ date.year = last.prev.year
              /\ date.day = Min(last.prev.day, LastDayOfMonth(date.year, date.month))
        /\ last.op = "year" =>
              /\ date.month = last.prev.month
              /\ date.day = Min(last.prev.day, LastDayOfMonth(date.year, date.month))

\* 29 February 2024 with the year set to a common year: 28 February
C30_Witness ==
    /\ last.op = "year"
    /\ last.prev = Greg(2024, 2, 29)
    /\ date.year # 2024 /\ date.month = 2 /\ date.day = 28

----------------------------------------------------------------------------
(* The common weekday lane of Layout::print, on the Row specification      *)

\* whether the common weekday lane is on: common_weekday when it is set, the
\* orientation otherwise
CommonLaneOn(L) ==
    (L.common_weekday = "true") \/ (L.common_weekday = "none" /\ L.vertical)

\* lines one row of months takes: the header and, vertically, one line per
\* weekday and one for the week numbers; horizontally the six weeks and one
\* line for the weekday names
LinesPerRow(L) ==
    1 + (IF L.vertical THEN WEEK_DAYS + (IF L.weeknums # "none" THEN 1 ELSE 0)
         ELSE WEEK_COUNT + (IF L.weekdays THEN 1 ELSE 0))

HasLetter(t) == \E i \in 1..Len(t) : ToAsciiLowercase(t[i]) # ToAsciiUppercase(t[i])

\* cell j of the first column of a vertical line
FirstColumnCell(L, line, j) ==
    SubSeq(line, (j - 1) * (DayCellWidth(L) + Len(L.delimiter)) + 1,
                 (j - 1) * (DayCellWidth(L) + Len(L.delimiter)) + DayCellWidth(L))

\* the numbers a vertical line shows in its first column
FirstColumnNumbers(L, line) ==
    { ParseCell(FirstColumnCell(L, line, j)) :
        j \in { c \in 1..WEEK_COUNT : ~IsBlank(FirstColumnCell(L, line, c)) } }

\* the line shows days, all of them on weekday wd (Sunday = 0)
IsWeekdayLine(L, line, wd) ==
    /\ FirstColumnNumbers(L, line) # {}
    /\ \A v \in FirstColumnNumbers(L, line) : CellDayNumber(L, v) % 7 = wd

\* the line starts with the week number of the month's first day
IsWeeknumLine(L, line) ==
    /\ L.weeknums # "none"
    /\ ~IsBlank(FirstColumnCell(L, line, 1))
    /\ ParseCell(FirstColumnCell(L, line, 1)) =
          ShownWeeknum(FirstOfMonth(L.date),
                       CountedWeeknum(FirstOfMonth(L.date), L.base_weekday), L.base_weekday)

BlankPrefix(L) == Spaces(DayCellWidth(L)) \o L.delimiter

WeekdayPrefix(L, wd) == SubSeq(WEEKDAYS[wd + 1], 1, DayCellWidth(L)) \o L.delimiter

\* the Layout with the weekday lane of the columns off
WithoutWeekdays(L) == [L EXCEPT !.weekdays = FALSE]

\* C27: the common weekday lane is on when common_weekday says so and, when
\* common_weekday is not set, exactly in vertical mode.  When it is on, print
\* leaves the weekday lane out of every column, and in vertical mode puts one
\* cell before every printed line, in step with the lines: a blank cell before
\* the month headers and the week-number line, the weekday's name before each
\* line of days; with week numbers before and after the grid and for any number
\* of rows.  When it is off no line has a prefix and the columns keep their lane.
C27_CommonWeekdayLane ==
    rpc = "print" =>
        LET L == rout.layout
            P == rout.printed
        IN  /\ CommonLaneOn(L) =>
                  /\ Len(P) % LinesPerRow(WithoutWeekdays(L)) = 0
                  /\ \A k \in 1..Len(P) :
                        /\ AnsiWidth(P[k].line) = WidthOfColumns(WithoutWeekdays(L), P[k].columns)
                        /\ HasLetter(P[k].line) <=> (k % LinesPerRow(WithoutWeekdays(L)) = 1)
            /\ ~CommonLaneOn(L) =>
                  /\ rout.top = <<>>
                  /\ Len(P) % LinesPerRow(L) = 0
                  /\ \A k \in 1..Len(P) :
                        /\ P[k].prefix = <<>>
                        /\ AnsiWidth(P[k].line) = WidthOfColumns(L, P[k].columns)
            /\ (CommonLaneOn(L) /\ ~L.vertical) => \A k \in 1..Len(P) : P[k].prefix = <<>>
            /\ (CommonLaneOn(L) /\ L.vertical) =>
                  \A k \in 1..Len(P) :
                      IF HasLetter(P[k].line) THEN P[k].prefix = BlankPrefix(L)
                      ELSE \/ /\ IsWeeknumLine([L EXCEPT !.date = P[k].date], P[k].line)
                              /\ P[k].prefix = BlankPrefix(L)
                           \/ \E wd \in 0..6 :
                                 /\ IsWeekdayLine([L EXCEPT !.date = P[k].date], P[k].line, wd)
                                 /\ P[k].prefix = WeekdayPrefix(L, wd)

\* three months, one per row, vertical with week numbers after the grid and
\* common_weekday not set: 27 lines; the 2nd starts with "Su|", the 9th, the
\* week numbers, and the 10th, the header of December, with a blank cell
C27_Witness ==
    /\ rpc = "print"
    /\ rout.layout.vertical /\ rout.layout.common_weekday = "none"
    /\ rout.layout.weeknums = "based" /\ ~rout.layout.weeknums_before_grid
    /\ ~rout.layout.ordinal_mode
    /\ rout.layout.more_columns = 2 /\ rout.layout.next_row_after_column = 0
    /\ Len(rout.printed) = 27
    /\ rout.printed[2].prefix = <<"S", "u", "|">>
    /\ rout.printed[9].prefix = <<" ", " ", "|">>
    /\ rout.printed[10].prefix = <<" ", " ", "|">>
    /\ rout.printed[11].prefix = <<"S", "u", "|">>
    /\ rout.printed[10].date.month = 12

====
